---- MODULE Spec2Model ----
(***************************************************************************)
(* A model of minekube/brigodier: the StringReader, the builtin argument   *)
(* types, the grammar tree (AddChild / merge), the parse engine            *)
(* (parseNodes) and the execution engine (Execute).                        *)
(*                                                                         *)
(* Strings are sequences of one-character strings; cursors are the 0-based *)
(* byte offsets of the Go code, so the byte at cursor c is s[c + 1].       *)
(***************************************************************************)
EXTENDS Integers, Sequences, FiniteSets, TLC

VARIABLES
    rdr,        \* reader specification: the StringReader [String, Cursor]
    last,       \* reader specification: the call made last on rdr
    tree,       \* the heap of grammar nodes, the dispatcher's Root at RootId
    treeLog,    \* tree specification: the calls made on the tree, in order
    input,      \* the command string handed to Parse
    pc,         \* "idle", "ready", "parsing", "parsed", "executing" or "done"
    stack,      \* the frames of the parseNodes calls in progress, the innermost last
    parse,      \* the ParseResults Parse returned: a sequence of at most one
    levels,     \* a record of every parseNodes call that returned, in order of return
    exec,       \* the locals of Execute, what it returned and what it invoked
    query       \* the call made on the parse or the tree beside Execute, and its result

dvars == <<input, pc, stack, parse, levels, exec, query>>

vars == <<rdr, last, tree, treeLog, input, pc, stack, parse, levels, exec, query>>

(***************************************************************************)
(* Bounds of the model.                                                    *)
(***************************************************************************)
\* the number of pieces a reader input is put together from
MaxPieces == 3
\* the number of calls made on the tree in the tree specification
MaxTreeOps == 3
\* the number of tokens a command string is put together from
MaxTokens == 3
MaxSuggestions == 3

\* the locals of an Execute that has not begun
NoExec ==
    [contexts |-> <<>>, next |-> <<>>, i |-> 0, forked |-> FALSE, foundCommand |-> FALSE,
     ret |-> <<>>, log |-> <<>>]

\* the dispatcher at rest, in the specifications that do not parse
NoQuery == [op |-> "none"]

IdleDispatcher ==
    /\ query = NoQuery
    /\ input = <<>>
    /\ pc = "idle"
    /\ stack = <<>>
    /\ parse = <<>>
    /\ levels = <<>>
    /\ exec = NoExec

(***************************************************************************)
(* Characters and strings.                                                 *)
(***************************************************************************)
ArgumentSeparator == " "
SyntaxDoubleQuote == "\""
SyntaxSingleQuote == "'"
SyntaxEscape == "\\"

DigitChars == <<"0", "1", "2", "3", "4", "5", "6", "7", "8", "9">>
LowerChars == <<"a", "b", "c", "d", "e", "f", "g", "h", "i", "j", "k", "l", "m",
                "n", "o", "p", "q", "r", "s", "t", "u", "v", "w", "x", "y", "z">>
UpperChars == <<"A", "B", "C", "D", "E", "F", "G", "H", "I", "J", "K", "L", "M",
                "N", "O", "P", "Q", "R", "S", "T", "U", "V", "W", "X", "Y", "Z">>

\* the element of a set of one element; The({F(x) : x \in {e}}) is F(e)
\* with e computed once
The(S) == CHOOSE x \in S : TRUE

Elems(f) == {f[x] : x \in DOMAIN f}

IsDigit(c) == c \in Elems(DigitChars)

IsAllowedNumber(c) == IsDigit(c) \/ c = "." \/ c = "-"

IsQuotedStringStart(c) == c = SyntaxDoubleQuote \/ c = SyntaxSingleQuote

IsAllowedInUnquotedString(c) ==
    \/ IsDigit(c)
    \/ c \in Elems(UpperChars)
    \/ c \in Elems(LowerChars)
    \/ c = "_" \/ c = "-"
    \/ c = "." \/ c = "+"

\* s[a:b] of Go: the bytes at offsets a .. b-1
Slice(s, a, b) == SubSeq(s, a + 1, b)

ToLowerChar(c) ==
    IF c \in Elems(UpperChars)
    THEN LowerChars[CHOOSE i \in DOMAIN UpperChars : UpperChars[i] = c]
    ELSE c

ToLower(s) == [i \in DOMAIN s |-> ToLowerChar(s[i])]

\* strings.EqualFold on ASCII text
EqualFold(s, t) == ToLower(s) = ToLower(t)

DigitVal(c) == (CHOOSE i \in DOMAIN DigitChars : DigitChars[i] = c) - 1

(***************************************************************************)
(* StringReader: a reader is the pair (s, c) of its String and its Cursor. *)
(* A typed reader returns the record Res(cursor, err, str, int, bool): the *)
(* Cursor it leaves in the reader, the error kind ("" is nil) and its      *)
(* value.  A ReaderError holds the reader itself, so the cursor an error   *)
(* reports is the Cursor of the result.                                    *)
(***************************************************************************)
Res(c, err, str, int, bool) == [Cursor |-> c, Err |-> err, S |-> str, I |-> int, B |-> bool]

Ok(c) == Res(c, "", <<>>, 0, FALSE)
OkStr(c, str) == Res(c, "", str, 0, FALSE)
OkInt(c, i) == Res(c, "", <<>>, i, FALSE)
OkBool(c, b) == Res(c, "", <<>>, 0, b)
Fail(c, err) == Res(c, err, <<>>, 0, FALSE)

CanReadLen(s, c, length) == c + length <= Len(s)

CanRead(s, c) == CanReadLen(s, c, 1)

Peek(s, c) == s[c + 1]

Remaining(s, c) == Slice(s, c, Len(s))

\* the cursor an invalid escape is reported at: one back, on the character
InvalidEscapeCursor_NoRewind(c) == c
InvalidEscapeCursor(c) == c - 1

RECURSIVE ReadStringUntilLoop(_, _, _, _, _)
ReadStringUntilLoop(s, c, terminator, escaped, result) ==
    IF ~CanRead(s, c)
    THEN Fail(c, "ExpectedEndOfQuote")
    ELSE LET ch == Peek(s, c)
             c1 == c + 1
         IN  IF escaped
             THEN IF ch = terminator \/ ch = SyntaxEscape
                  THEN ReadStringUntilLoop(s, c1, terminator, FALSE, Append(result, ch))
                  ELSE Fail(InvalidEscapeCursor(c1), "InvalidEscape")
             ELSE IF ch = SyntaxEscape
                  THEN ReadStringUntilLoop(s, c1, terminator, TRUE, result)
                  ELSE IF ch = terminator
                       THEN OkStr(c1, result)
                       ELSE ReadStringUntilLoop(s, c1, terminator, FALSE, Append(result, ch))

ReadStringUntil(s, c, terminator) == ReadStringUntilLoop(s, c, terminator, FALSE, <<>>)

RECURSIVE SkipWhileUnquoted(_, _)
SkipWhileUnquoted(s, c) ==
    IF CanRead(s, c) /\ IsAllowedInUnquotedString(Peek(s, c))
    THEN SkipWhileUnquoted(s, c + 1)
    ELSE c

ReadUnquotedString(s, c) ==
    LET e == SkipWhileUnquoted(s, c) IN OkStr(e, Slice(s, c, e))

ReadQuotedString_AnyStart(s, c) ==
    IF ~CanRead(s, c)
    THEN OkStr(c, <<>>)
    ELSE ReadStringUntil(s, c + 1, Peek(s, c))
ReadQuotedString(s, c) ==
    IF ~CanRead(s, c)
    THEN OkStr(c, <<>>)
    ELSE IF ~IsQuotedStringStart(Peek(s, c))
         THEN Fail(c, "ExpectedStartOfQuote")
         ELSE ReadStringUntil(s, c + 1, Peek(s, c))

ReadString(s, c) ==
    IF ~CanRead(s, c)
    THEN OkStr(c, <<>>)
    ELSE IF IsQuotedStringStart(Peek(s, c))
         THEN ReadStringUntil(s, c + 1, Peek(s, c))
         ELSE ReadUnquotedString(s, c)

ReadBool(s, c) ==
    LET r == ReadString(s, c)
    IN  IF r.Err # ""
        THEN r
        ELSE IF Len(r.S) = 0
             THEN Fail(r.Cursor, "ExpectedBool")
             ELSE IF EqualFold(r.S, <<"t", "r", "u", "e">>)
                  THEN OkBool(r.Cursor, TRUE)
                  ELSE IF EqualFold(r.S, <<"f", "a", "l", "s", "e">>)
                       THEN OkBool(r.Cursor, FALSE)
                       ELSE Fail(c, "InvalidBool")

(***************************************************************************)
(* strconv.ParseInt(number, 0, bitSize) on a token of allowed-number       *)
(* bytes: an optional sign, base 8 after a leading "0", base 10 otherwise; *)
(* every other byte is a syntax error and a value outside the bitSize      *)
(* range is a range error.  ParseIntOf gives [ok, val].                    *)
(***************************************************************************)
RECURSIVE DigitsValue(_, _, _)
\* the value of the digit string ds in the base, over the accumulator acc;
\* -1 when some byte is no digit of the base
DigitsValue(ds, base, acc) ==
    IF ds = <<>>
    THEN acc
    ELSE IF ~IsDigit(Head(ds)) \/ DigitVal(Head(ds)) >= base
         THEN -1
         ELSE DigitsValue(Tail(ds), base, acc * base + DigitVal(Head(ds)))

MinInt32 == -2147483647 - 1
MaxInt32 == 2147483647

\* whether val fits bitSize bits.  TLC's integers are 32 bits wide and the
\* tokens of the model are shorter than ten digits, so every value the model
\* forms fits 64 bits.
FitsBits(val, bitSize) == bitSize = 64 \/ (val >= MinInt32 /\ val <= MaxInt32)

ParseIntOf(number, bitSize) ==
    LET neg == number # <<>> /\ Head(number) = "-"
        body == IF neg THEN Tail(number) ELSE number
        octal == body # <<>> /\ Head(body) = "0"
        mag == IF body = <<>>
               THEN -1
               ELSE IF octal
                    THEN DigitsValue(Tail(body), 8, 0)
                    ELSE DigitsValue(body, 10, 0)
        val == IF neg THEN -mag ELSE mag
    IN  IF mag < 0
        THEN [ok |-> FALSE, val |-> 0]
        ELSE IF ~FitsBits(val, bitSize)
             THEN [ok |-> FALSE, val |-> 0]
             ELSE [ok |-> TRUE, val |-> val]

RECURSIVE SkipWhileNumber(_, _)
SkipWhileNumber(s, c) ==
    IF CanRead(s, c) /\ IsAllowedNumber(Peek(s, c))
    THEN SkipWhileNumber(s, c + 1)
    ELSE c

\* the cursor readInt leaves when the token does not parse: its start
InvalidIntCursor_NoRewind(start, end) == end
InvalidIntCursor(start, end) == start

readInt_NoExpected(s, c, bitSize) ==
    LET e == SkipWhileNumber(s, c)
        number == Slice(s, c, e)
        p == ParseIntOf(number, bitSize)
    IN  IF number = <<>> \/ ~p.ok
        THEN Fail(InvalidIntCursor(c, e), "InvalidInt")
        ELSE OkInt(e, p.val)

readInt(s, c, bitSize) ==
    LET e == SkipWhileNumber(s, c)
        number == Slice(s, c, e)
        p == ParseIntOf(number, bitSize)
    IN  IF number = <<>>
        THEN Fail(e, "ExpectedInt")
        ELSE IF ~p.ok
             THEN Fail(InvalidIntCursor(c, e), "InvalidInt")
             ELSE OkInt(e, p.val)

ReadInt32(s, c) == readInt(s, c, 32)
ReadInt64(s, c) == readInt(s, c, 64)

(***************************************************************************)
(* Builtin argument types.  A type is [kind, Min, Max]; Min and Max are a  *)
(* one-element sequence holding the bound, or <<>> for math.MaxInt64,      *)
(* which no value of the model reaches.                                    *)
(***************************************************************************)
\* the source sets MinInt64 = math.MinInt32
MinInt64 == MinInt32

\* the type of a node that is no argument
NoType == [kind |-> "", Min |-> <<>>, Max |-> <<>>]

SingleWord == [kind |-> "word", Min |-> <<>>, Max |-> <<>>]
QuotablePhase == [kind |-> "string", Min |-> <<>>, Max |-> <<>>]
GreedyPhrase == [kind |-> "greedy", Min |-> <<>>, Max |-> <<>>]
Bool == [kind |-> "bool", Min |-> <<>>, Max |-> <<>>]
Int32 == [kind |-> "int32", Min |-> <<MinInt32>>, Max |-> <<MaxInt32>>]
Int64 == [kind |-> "int64", Min |-> <<MinInt64>>, Max |-> <<>>]
\* an Int32ArgumentType{Min, Max} with bounds of the caller's own
Int32Between(lo, hi) == [kind |-> "int32", Min |-> <<lo>>, Max |-> <<hi>>]

StringTypeParse(t, s, c) ==
    IF t.kind = "greedy"
    THEN OkStr(Len(s), Remaining(s, c))
    ELSE IF t.kind = "word"
         THEN ReadUnquotedString(s, c)
         ELSE ReadString(s, c)

\* the cursor parseInt leaves behind an out-of-range value: the start
OutOfRangeCursor_NoRewind(start, end) == end
OutOfRangeCursor(start, end) == start

\* the bounds check parseInt makes on the outcome r of readInt
CheckBounds(r, c, min, max) ==
    IF r.Err # ""
    THEN r
    ELSE IF min # <<>> /\ r.I < min[1]
         THEN Fail(OutOfRangeCursor(c, r.Cursor), "IntegerTooLow")
         ELSE IF max # <<>> /\ r.I > max[1]
              THEN Fail(OutOfRangeCursor(c, r.Cursor), "IntegerTooHigh")
              ELSE r

parseInt(s, c, bitSize, min, max) ==
    The({CheckBounds(r, c, min, max) : r \in {readInt(s, c, bitSize)}})

\* ArgumentType.Parse of the builtin types
ArgTypeParse(t, s, c) ==
    CASE t.kind = "bool" -> ReadBool(s, c)
      [] t.kind = "int32" -> parseInt(s, c, 32, t.Min, t.Max)
      [] t.kind = "int64" -> parseInt(s, c, 64, t.Min, t.Max)
      [] OTHER -> StringTypeParse(t, s, c)

\* the errors that are a ReaderError, which holds the reader it was raised on
ReaderErrors ==
    {"ExpectedEndOfQuote", "InvalidEscape", "ExpectedStartOfQuote", "ExpectedBool",
     "InvalidBool", "ExpectedInt", "InvalidInt", "IncorrectLiteral",
     "ExpectedArgumentSeparator", "UnknownCommand", "UnknownArgument"}

(***************************************************************************)
(* LiteralCommandNode.parse: the end of the literal when it stands at the  *)
(* cursor and a separator or the end of the input follows it, else -1.     *)
(***************************************************************************)
LiteralParseEnd_NoBoundary(literal, s, c) ==
    IF CanReadLen(s, c, Len(literal)) /\ Slice(s, c, c + Len(literal)) = literal
    THEN c + Len(literal)
    ELSE -1
LiteralParseEnd(literal, s, c) ==
    LET end == c + Len(literal)
    IN  IF CanReadLen(s, c, Len(literal))
           /\ Slice(s, c, end) = literal
           /\ (~CanRead(s, end) \/ Peek(s, end) = ArgumentSeparator)
        THEN end
        ELSE -1

\* LiteralCommandNode.Parse on the reader (s, c)
LiteralParse(literal, s, c) ==
    LET end == LiteralParseEnd(literal, s, c)
    IN  IF end <= -1 THEN Fail(c, "IncorrectLiteral") ELSE Ok(end)

\* ArgumentCommandNode.Parse on the reader (s, c): the type's result, the
\* error wrapped ("error parsing argument: %w") and the reader left as it is
ArgumentParse(t, s, c) == ArgTypeParse(t, s, c)

(***************************************************************************)
(* The grammar tree.  Nodes live in a heap: a sequence of node records,    *)
(* node n at index n + 1, the dispatcher's Root at RootId.  A node holds   *)
(* the ids of its children in the maps children, literals and arguments    *)
(* (functions from the child's name) and in the ordered map                *)
(* childrenOrdered (a sequence of [key, value]).                           *)
(***************************************************************************)
RootId == 0
NoNode == -1

EmptyMap == [k \in {} |-> NoNode]

NodeOf(h, n) == h[n + 1]

NewNode(kind, name, type, requirement, redirect, command, modifier, forks) ==
    [kind |-> kind, name |-> name, type |-> type,
     childrenOrdered |-> <<>>, children |-> EmptyMap,
     literals |-> EmptyMap, arguments |-> EmptyMap,
     requirement |-> requirement, redirect |-> redirect, command |-> command,
     modifier |-> modifier, forks |-> forks]

RootCommandNode == NewNode("root", <<>>, NoType, "nil", NoNode, "nil", "nil", FALSE)

\* the zero Dispatcher: a Root without children
EmptyHeap == <<RootCommandNode>>

MapPut(m, k, v) == [x \in DOMAIN m \cup {k} |-> IF x = k THEN v ELSE m[x]]

MapDelete(m, k) == [x \in DOMAIN m \ {k} |-> m[x]]

\* StringCommandNodeMap.Put: the value of a key it holds is replaced in
\* place, a new key is appended
OrderedPut(om, k, v) ==
    IF \E i \in DOMAIN om : om[i].key = k
    THEN [i \in DOMAIN om |-> IF om[i].key = k THEN [key |-> k, value |-> v] ELSE om[i]]
    ELSE Append(om, [key |-> k, value |-> v])

\* StringCommandNodeMap.Remove
OrderedRemove(om, k) == SelectSeq(om, LAMBDA e : e.key # k)

SetNode(h, n, node) == [h EXCEPT ![n + 1] = node]

setCommand_Reset(h, n, c) ==
    SetNode(h, n, [NodeOf(h, n) EXCEPT !.command = c, !.requirement = "nil"])
setCommand(h, n, c) == SetNode(h, n, [NodeOf(h, n) EXCEPT !.command = c])

putChild(h, n, name, id) ==
    SetNode(h, n, [NodeOf(h, n) EXCEPT
                       !.children = MapPut(@, name, id),
                       !.childrenOrdered = OrderedPut(@, name, id)])

\* the switch of AddChild that files a new child under its kind
IndexChild(h, n, name, id) ==
    LET kind == NodeOf(h, id).kind
    IN  SetNode(h, n, [NodeOf(h, n) EXCEPT
                           !.literals = IF kind = "literal" THEN MapPut(@, name, id) ELSE @,
                           !.arguments = IF kind = "argument" THEN MapPut(@, name, id) ELSE @])

\* the sequences that hold every element of the set S once: the orders in
\* which a range over a Go map may visit it
Orders(S) == {q \in [1..Cardinality(S) -> S] : \A x \in S : \E i \in DOMAIN q : q[i] = x}

\* the command an existing child has after a node with command c merged
\* onto it
MergedCommand_Always(old, c) == c
MergedCommand(old, c) == IF c # "nil" THEN c ELSE old

(***************************************************************************)
(* Node.AddChild(node) on node n of heap h, for one incoming node id.  The *)
(* merge ranges over the Go map node.Children(), in an order the code does *)
(* not fix: AddChild gives the set of heaps the call may leave.            *)
(***************************************************************************)
RECURSIVE AddChild(_, _, _)
RECURSIVE AddChildren(_, _, _)
AddChildren(h, n, ids) ==
    IF ids = <<>>
    THEN {h}
    ELSE UNION {AddChildren(h2, n, Tail(ids)) : h2 \in AddChild(h, n, Head(ids))}

AddChild(h, n, id) ==
    LET node == NodeOf(h, id)
        name == node.name
    IN  IF node.kind = "root"
        THEN {h}
        ELSE IF name \in DOMAIN NodeOf(h, n).children
             THEN LET child == NodeOf(h, n).children[name]
                      h1 == setCommand(h, child, MergedCommand(NodeOf(h, child).command, node.command))
                      grandchildren == {node.children[k] : k \in DOMAIN node.children}
                  IN  UNION {AddChildren(h1, child, q) : q \in Orders(grandchildren)}
             ELSE {IndexChild(putChild(h, n, name, id), n, name, id)}

\* Node.RemoveChild(name)
RemoveChild_KeepsIndex(h, n, name) ==
    SetNode(h, n, [NodeOf(h, n) EXCEPT
                       !.children = MapDelete(@, name),
                       !.childrenOrdered = OrderedRemove(@, name)])
RemoveChild(h, n, name) ==
    SetNode(h, n, [NodeOf(h, n) EXCEPT
                       !.children = MapDelete(@, name),
                       !.arguments = MapDelete(@, name),
                       !.literals = MapDelete(@, name),
                       !.childrenOrdered = OrderedRemove(@, name)])

\* Dispatcher.FindNode(path...): the node's id, or NoNode
RECURSIVE FindFrom(_, _, _)
FindFrom(h, n, path) ==
    IF path = <<>>
    THEN n
    ELSE IF Head(path) \in DOMAIN NodeOf(h, n).children
         THEN FindFrom(h, NodeOf(h, n).children[Head(path)], Tail(path))
         ELSE NoNode

FindNode_FirstName(h, path) ==
    IF path = <<>> THEN RootId ELSE FindFrom(h, RootId, <<Head(path)>>)
FindNode(h, path) == FindFrom(h, RootId, path)

\* Dispatcher.addPaths(node, result, parents): the lists appended to result,
\* one per node met, each the nodes from the start down to it.  The range
\* over node.Children() visits the children in an order the code does not
\* fix: addPaths gives the set of results the call may leave.
RECURSIVE addPaths(_, _, _)
RECURSIVE addPathsOf(_, _, _)
addPathsOf(h, ids, current) ==
    IF ids = <<>>
    THEN {<<>>}
    ELSE UNION { {a \o b : b \in addPathsOf(h, Tail(ids), current)} :
                 a \in addPaths(h, Head(ids), current) }

addPaths(h, node, parents) ==
    LET current == Append(parents, node)
        children == NodeOf(h, node).children
    IN  UNION { {<<current>> \o rest :
                    rest \in addPathsOf(h, [i \in DOMAIN q |-> children[q[i]]], current)} :
                q \in Orders(DOMAIN children) }

\* the names of the nodes of a list, Root left out
RECURSIVE PathNames(_, _)
PathNames(h, list) ==
    IF list = <<>>
    THEN <<>>
    ELSE IF Head(list) = RootId
         THEN PathNames(h, Tail(list))
         ELSE <<NodeOf(h, Head(list)).name>> \o PathNames(h, Tail(list))

\* the first list of nodes that ends in target, as names; nil (the empty
\* path) when there is none
RECURSIVE FirstPathTo(_, _, _)
FirstPathTo(h, nodes, target) ==
    IF nodes = <<>>
    THEN <<>>
    ELSE IF Head(nodes)[Len(Head(nodes))] = target
         THEN PathNames(h, Head(nodes))
         ELSE FirstPathTo(h, Tail(nodes), target)

\* Dispatcher.Path(target): the paths the call may return
Path(h, target) == {FirstPathTo(h, nodes, target) : nodes \in addPaths(h, RootId, <<>>)}

(***************************************************************************)
(* Builders.  A builder is a record of what Literal / Argument and the     *)
(* fluent calls set; then holds the builders passed to Then, in call       *)
(* order.  The target of a forward is named by its path from Root ("the    *)
(* node FindNode(path) returns"), held as a sequence of one path;          *)
(* NoTarget is the nil target.                                             *)
(***************************************************************************)
NoTarget == <<>>

Builder(kind, name, type) ==
    [kind |-> kind, name |-> name, type |-> type, command |-> "nil",
     requirement |-> "nil", target |-> NoTarget, modifier |-> "nil", forks |-> FALSE,
     then |-> <<>>]

Literal(name) == Builder("literal", name, NoType)

Argument(name, type) == Builder("argument", name, type)

Executes(b, command) == [b EXCEPT !.command = command]

Requires(b, fn) == [b EXCEPT !.requirement = fn]

Then(b, a) == [b EXCEPT !.then = Append(@, a)]

\* cannot forward a builder with children
Forward(b, target, modifier, fork) ==
    IF b.then # <<>>
    THEN b
    ELSE [b EXCEPT !.target = <<target>>, !.modifier = modifier, !.forks = fork]

Redirect(b, target) == Forward(b, target, "nil", FALSE)

RedirectWithModifier(b, target, modifier) == Forward(b, target, modifier, FALSE)

Fork(b, target, modifier) == Forward(b, target, modifier, TRUE)

\* Build: the node of the builder, allocated behind the nodes of the heap,
\* with the built nodes of its Then-builders added in call order.  Gives the
\* set of [heap, id] the build may leave.
RECURSIVE Build(_, _)
RECURSIVE BuildThen(_, _, _)
BuildThen(h, n, bs) ==
    IF bs = <<>>
    THEN {h}
    ELSE UNION { UNION {BuildThen(h2, n, Tail(bs)) : h2 \in AddChild(r.heap, n, r.id)} :
                 r \in Build(h, Head(bs)) }

Build(h, b) ==
    LET id == Len(h)
        target == IF b.target = NoTarget THEN NoNode ELSE FindNode(h, b.target[1])
        node == NewNode(b.kind, b.name, b.type, b.requirement, target, b.command,
                        b.modifier, b.forks)
    IN  {[heap |-> h2, id |-> id] : h2 \in BuildThen(Append(h, node), id, b.then)}

\* Dispatcher.Register(command): Build, then Root.AddChild
Register(h, b) ==
    UNION {AddChild(r.heap, RootId, r.id) : r \in Build(h, b)}

RECURSIVE RegisterAll(_, _)
RegisterAll(h, bs) ==
    IF bs = <<>>
    THEN {h}
    ELSE UNION {RegisterAll(h2, Tail(bs)) : h2 \in Register(h, Head(bs))}

(***************************************************************************)
(* Command contexts.  A CommandContext is a record; Child is a sequence of *)
(* at most one context (the empty sequence is the nil Child).  Context is  *)
(* the context.Context the command context wraps: "host" for the one       *)
(* handed to Parse, "parent" for the command context of the link before,   *)
(* or the name of the modifier whose result it is.                         *)
(***************************************************************************)
StringRange(start, end) == [Start |-> start, End |-> end]

IsEmpty_Never(r) == FALSE
IsEmpty(r) == r.Start = r.End

min(x, y) == IF x < y THEN x ELSE y

max(x, y) == IF x > y THEN x ELSE y

EncompassingRange_Second(r1, r2) == r2
EncompassingRange(r1, r2) == StringRange(min(r1.Start, r2.Start), max(r1.End, r2.End))

\* &CommandContext{Context, RootNode, Range: {cursor, cursor}, cursor}
CommandContext(context, rootNode, cursor) ==
    [Context |-> context, Arguments |-> EmptyMap, RootNode |-> rootNode, Child |-> <<>>,
     Command |-> "nil", Nodes |-> <<>>, Range |-> StringRange(cursor, cursor),
     Modifier |-> "nil", Forks |-> FALSE, Input |-> <<>>, cursor |-> cursor]

withNode(h, ctx, n, r) ==
    [ctx EXCEPT !.Nodes = Append(@, [Node |-> n, Range |-> r]),
                !.Range = EncompassingRange(@, r),
                !.Modifier = NodeOf(h, n).modifier,
                !.Forks = NodeOf(h, n).forks]

withArgument(ctx, name, parsed) == [ctx EXCEPT !.Arguments = MapPut(@, name, parsed)]

HasNodes(ctx) == Len(ctx.Nodes) # 0

\* CommandContext.build(input): the chain copied, Input set, cursor left zero
build_NoInput(c, in) == [c EXCEPT !.cursor = 0]
RECURSIVE build(_, _)
build(c, in) ==
    [c EXCEPT !.Input = in,
              !.Child = IF c.Child = <<>> THEN <<>> ELSE <<build(c.Child[1], in)>>,
              !.cursor = 0]

\* CommandContext.CopyFor(ctx)
CopyFor_Grandchild(c, context) ==
    IF c.Child # <<>> THEN [c.Child[1] EXCEPT !.Context = context] ELSE [c EXCEPT !.Context = context]
CopyFor(c, context) == [c EXCEPT !.Context = context]

\* the requirements of the model: "nil", "allow" (returns true), "deny"
\* (returns false)
CanUse(h, n) == NodeOf(h, n).requirement # "deny"

\* the commands and modifiers of the model that return an error
CommandFails(command) == command = "cFail"

ModifierFails(modifier) == modifier = "modFail"

(***************************************************************************)
(* Errors.  Cursor is the cursor of the reader the error holds, as a caller *)
(* of Parse or Execute reads it; At is the cursor that reader had when the  *)
(* error was made.                                                          *)
(***************************************************************************)
Error(err, cursor, at) == [Err |-> err, Cursor |-> cursor, At |-> at]

ParseResults(ctx, s, c, errs) ==
    [Context |-> ctx, Reader |-> [String |-> s, Cursor |-> c], Errs |-> errs]

ReaderCanRead(rd) == CanRead(rd.String, rd.Cursor)

\* StringReader.Skip
Skip_Stay(c) == c
Skip(c) == c + 1

(***************************************************************************)
(* Node.RelevantNodes on the reader (s, c): the literal child named as the *)
(* text up to the next separator, else the argument children in the order  *)
(* a range over the Go map n.arguments visits them, which the code does    *)
(* not fix: the set of the orders.                                         *)
(***************************************************************************)
RECURSIVE TokenEnd(_, _)
TokenEnd(s, c) ==
    IF CanRead(s, c) /\ Peek(s, c) # ArgumentSeparator THEN TokenEnd(s, c + 1) ELSE c

NextToken(s, c) == Slice(s, c, TokenEnd(s, c))

ArgumentsOf(node) == {node.arguments[k] : k \in DOMAIN node.arguments}

RelevantNodes_Every(h, n, s, c) ==
    Orders({NodeOf(h, n).children[k] : k \in DOMAIN NodeOf(h, n).children})
RelevantNodes_NoShortCircuit(h, n, s, c) ==
    LET node == NodeOf(h, n)
        text == NextToken(s, c)
        literal == IF text \in DOMAIN node.literals THEN <<node.literals[text]>> ELSE <<>>
    IN  {literal \o q : q \in Orders(ArgumentsOf(node))}
RelevantNodes(h, n, s, c) ==
    LET node == NodeOf(h, n)
        text == NextToken(s, c)
    IN  IF DOMAIN node.literals # {} /\ text \in DOMAIN node.literals
        THEN {<<node.literals[text]>>}
        ELSE Orders(ArgumentsOf(node))

(***************************************************************************)
(* CommandNode.Parse(ctx, rd) of node n with the reader at (s, c), and the *)
(* separator check parseNodes makes behind it: the context, the cursor     *)
(* the reader is left at and the error ("" for nil).                       *)
(***************************************************************************)
Parsed(ctx, cursor, err) == [ctx |-> ctx, Cursor |-> cursor, Err |-> err]

\* LiteralCommandNode.Parse, r the outcome of LiteralCommandNode.parse
LiteralNodeParse(h, n, ctx, c, r) ==
    IF r.Err # ""
    THEN Parsed(ctx, r.Cursor, r.Err)
    ELSE Parsed(withNode(h, ctx, n, StringRange(c, r.Cursor)), r.Cursor, "")

\* ArgumentCommandNode.Parse, r the outcome of a.argType.Parse
ArgumentNodeParse(h, n, ctx, c, r) ==
    LET parsed == [Range |-> StringRange(c, r.Cursor),
                   Result |-> [S |-> r.S, I |-> r.I, B |-> r.B]]
    IN  IF r.Err # ""
        THEN Parsed(ctx, r.Cursor, r.Err)
        ELSE Parsed(withNode(h, withArgument(ctx, NodeOf(h, n).name, parsed), n, parsed.Range),
                    r.Cursor, "")

NodeParse(h, n, ctx, s, c) ==
    IF NodeOf(h, n).kind = "literal"
    THEN The({LiteralNodeParse(h, n, ctx, c, r) : r \in {LiteralParse(NodeOf(h, n).name, s, c)}})
    ELSE The({ArgumentNodeParse(h, n, ctx, c, r) : r \in {ArgumentParse(NodeOf(h, n).type, s, c)}})

\* the check of parseNodes behind a Parse that returned p
ExpectSeparator(s, p) ==
    IF p.Err = "" /\ CanRead(s, p.Cursor) /\ Peek(s, p.Cursor) # ArgumentSeparator
    THEN [p EXCEPT !.Err = "ExpectedArgumentSeparator"]
    ELSE p

ParseChild(h, n, ctx, s, c) == The({ExpectSeparator(s, p) : p \in {NodeParse(h, n, ctx, s, c)}})

(***************************************************************************)
(* The order of the potentials: the less function handed to sort.Slice,    *)
(* and the insertion sort sort.Slice runs on a slice of at most 12         *)
(* elements.                                                               *)
(***************************************************************************)
NoErrs(r) == Cardinality(DOMAIN r.Errs) = 0

less_ErrsOnly(a, b) == ~NoErrs(a) /\ NoErrs(b)
less(a, b) ==
    IF ~ReaderCanRead(a.Reader) /\ ReaderCanRead(b.Reader)
    THEN TRUE
    ELSE IF ReaderCanRead(a.Reader) /\ ~ReaderCanRead(b.Reader)
         THEN FALSE
         ELSE IF NoErrs(a) /\ ~NoErrs(b)
              THEN FALSE
              ELSE IF ~NoErrs(a) /\ NoErrs(b)
                   THEN TRUE
                   ELSE FALSE

Swap(q, i, j) == [q EXCEPT ![i] = q[j], ![j] = q[i]]

RECURSIVE SiftDown(_, _)
SiftDown(q, j) ==
    IF j > 1 /\ less(q[j], q[j - 1]) THEN SiftDown(Swap(q, j, j - 1), j - 1) ELSE q

RECURSIVE InsertionSort(_, _)
InsertionSort(q, i) == IF i > Len(q) THEN q ELSE InsertionSort(SiftDown(q, i), i + 1)

SortPotentials(q) == InsertionSort(q, 2)

(***************************************************************************)
(* The reader specification: a StringReader over a bounded input, standing *)
(* at any piece boundary, on which the typed readers and the Parse of a    *)
(* literal or argument node are called one after the other.  last records  *)
(* the call that was made: its name, the literal or type it was made for,  *)
(* the cursor it started at and its result.                                *)
(***************************************************************************)
Pieces ==
    { <<SyntaxDoubleQuote>>, <<SyntaxSingleQuote>>, <<SyntaxEscape>>,
      <<ArgumentSeparator>>, <<"a">>, <<"1">>, <<"-">>, <<"0", "8">>,
      <<"T", "r", "u", "e">> }

RECURSIVE Concat(_)
Concat(ss) == IF ss = <<>> THEN <<>> ELSE Head(ss) \o Concat(Tail(ss))

PieceSeqs(n) == UNION {[1..k -> Pieces] : k \in 0..n}

ReaderLiterals == { <<>>, <<"a">>, <<"1">>, <<"T", "r", "u", "e">> }

ReaderArgTypes ==
    { SingleWord, QuotablePhase, GreedyPhrase, Bool, Int32, Int64, Int32Between(0, 0) }

Call(op, literal, type, start, res) ==
    [op |-> op, literal |-> literal, type |-> type, start |-> start, res |-> res]

ReaderInit ==
    /\ \E ps \in PieceSeqs(MaxPieces) :
           \E k \in 0..Len(ps) :
               rdr = [String |-> Concat(ps), Cursor |-> Len(Concat(SubSeq(ps, 1, k)))]
    /\ last = Call("new", <<>>, NoType, rdr.Cursor, Ok(rdr.Cursor))
    /\ tree = EmptyHeap
    /\ treeLog = <<>>
    /\ IdleDispatcher

InWindow == 0 <= rdr.Cursor /\ rdr.Cursor <= Len(rdr.String)

\* the reader after a call that left the result res; no call is followed
\* on a reader whose cursor is outside of its string
Called(op, literal, type, res) ==
    /\ InWindow
    /\ rdr' = [rdr EXCEPT !.Cursor = res.Cursor]
    /\ last' = Call(op, literal, type, rdr.Cursor, res)
    /\ UNCHANGED <<tree, treeLog, dvars>>

DoReadQuotedString ==
    Called("ReadQuotedString", <<>>, NoType, ReadQuotedString(rdr.String, rdr.Cursor))

DoReadString ==
    Called("ReadString", <<>>, NoType, ReadString(rdr.String, rdr.Cursor))

DoReadUnquotedString ==
    Called("ReadUnquotedString", <<>>, NoType, ReadUnquotedString(rdr.String, rdr.Cursor))

DoReadInt32 ==
    Called("ReadInt32", <<>>, NoType, ReadInt32(rdr.String, rdr.Cursor))

DoReadInt64 ==
    Called("ReadInt64", <<>>, NoType, ReadInt64(rdr.String, rdr.Cursor))

DoReadBool ==
    Called("ReadBool", <<>>, NoType, ReadBool(rdr.String, rdr.Cursor))

DoLiteralParse ==
    \E literal \in ReaderLiterals :
        Called("LiteralParse", literal, NoType, LiteralParse(literal, rdr.String, rdr.Cursor))

DoArgumentParse ==
    \E t \in ReaderArgTypes :
        Called("ArgumentParse", <<>>, t, ArgumentParse(t, rdr.String, rdr.Cursor))

ReaderNext ==
    \/ DoReadQuotedString
    \/ DoReadString
    \/ DoReadUnquotedString
    \/ DoReadInt32
    \/ DoReadInt64
    \/ DoReadBool
    \/ DoLiteralParse
    \/ DoArgumentParse

SpecReader == ReaderInit /\ [][ReaderNext]_vars

(***************************************************************************)
(* The reader specification with the untyped operations Skip, Read, Peek,  *)
(* CanRead and Remaining beside the typed readers.  An index past the end  *)
(* of the string panics and leaves the reader as it was.                   *)
(***************************************************************************)
IndexOutOfRange(c) == Fail(c, "index out of range")

\* StringReader.Read
Read(s, c) == IF c < Len(s) THEN OkStr(c + 1, <<s[c + 1]>>) ELSE IndexOutOfRange(c)

DoSkip == Called("Skip", <<>>, NoType, Ok(Skip(rdr.Cursor)))

DoRead == Called("Read", <<>>, NoType, Read(rdr.String, rdr.Cursor))

DoPeek ==
    Called("Peek", <<>>, NoType,
           IF rdr.Cursor < Len(rdr.String)
           THEN OkStr(rdr.Cursor, <<Peek(rdr.String, rdr.Cursor)>>)
           ELSE IndexOutOfRange(rdr.Cursor))

DoCanRead ==
    Called("CanRead", <<>>, NoType, OkBool(rdr.Cursor, CanRead(rdr.String, rdr.Cursor)))

DoRemaining ==
    Called("Remaining", <<>>, NoType, OkStr(rdr.Cursor, Remaining(rdr.String, rdr.Cursor)))

ReaderOpsNext ==
    \/ ReaderNext
    \/ DoSkip
    \/ DoRead
    \/ DoPeek
    \/ DoCanRead
    \/ DoRemaining

SpecReaderOps == ReaderInit /\ [][ReaderOpsNext]_vars

(***************************************************************************)
(* The tree specification: a Dispatcher on which Register, AddChild and    *)
(* RemoveChild are called, at most MaxTreeOps times.  treeLog records each *)
(* call: its name, the node it was made on, the incoming node (or NoNode), *)
(* the name removed and the builder the incoming node was built from.      *)
(***************************************************************************)
NBase == <<"b", "a", "s", "e">>
NFoo == <<"f", "o", "o">>
NBar == <<"b", "a", "r">>

BaseFoo == Then(Literal(NBase), Executes(Literal(NFoo), "c1"))
BaseBar == Then(Literal(NBase), Executes(Literal(NBar), "c2"))
BaseCommand == Executes(Literal(NBase), "c7")

TreeBuilders ==
    { BaseFoo,
      BaseBar,
      BaseCommand,
      Executes(Fork(Requires(Literal(NBase), "deny"), <<>>, "swap"), "c3"),
      Then(Then(Literal(NBase), Executes(Literal(NFoo), "c4")),
           Executes(Argument(NBar, Int32), "c5")),
      Executes(Argument(NFoo, Bool), "c6") }

NoBuilder == Builder("none", <<>>, NoType)

TreeCall(op, n, id, name, b) == [op |-> op, n |-> n, id |-> id, name |-> name, b |-> b]

NodeIds(h) == 0..(Len(h) - 1)

IdleReader == [String |-> <<>>, Cursor |-> 0]

TreeInit ==
    /\ tree = EmptyHeap
    /\ treeLog = <<>>
    /\ rdr = IdleReader
    /\ last = Call("new", <<>>, NoType, 0, Ok(0))
    /\ IdleDispatcher

DoRegister ==
    /\ Len(treeLog) < MaxTreeOps
    /\ \E b \in {x \in TreeBuilders : x.kind = "literal"} :
           \E h2 \in Register(tree, b) :
               /\ tree' = h2
               /\ treeLog' = Append(treeLog, TreeCall("Register", RootId, Len(tree), <<>>, b))
    /\ UNCHANGED <<rdr, last, dvars>>

\* AddChild of a newly built node on a node below Root
DoAddChild ==
    /\ Len(treeLog) < MaxTreeOps
    /\ \E n \in NodeIds(tree) \ {RootId}, b \in TreeBuilders :
           \E r \in Build(tree, b) :
               \E h2 \in AddChild(r.heap, n, r.id) :
                   /\ tree' = h2
                   /\ treeLog' = Append(treeLog, TreeCall("AddChild", n, r.id, <<>>, b))
    /\ UNCHANGED <<rdr, last, dvars>>

\* AddChild of the RootCommandNode on any node
DoAddRoot ==
    /\ Len(treeLog) < MaxTreeOps
    /\ \E n \in NodeIds(tree) :
           \E h2 \in AddChild(tree, n, RootId) :
               /\ tree' = h2
               /\ treeLog' = Append(treeLog, TreeCall("AddChild", n, RootId, <<>>, NoBuilder))
    /\ UNCHANGED <<rdr, last, dvars>>

DoRemoveChild ==
    /\ Len(treeLog) < MaxTreeOps
    /\ \E n \in NodeIds(tree), name \in {NBase, NFoo, NBar} :
           /\ tree' = RemoveChild(tree, n, name)
           /\ treeLog' = Append(treeLog, TreeCall("RemoveChild", n, NoNode, name, NoBuilder))
    /\ UNCHANGED <<rdr, last, dvars>>

TreeNext ==
    \/ DoRegister
    \/ DoAddChild
    \/ DoAddRoot
    \/ DoRemoveChild

SpecTree == TreeInit /\ [][TreeNext]_vars

(***************************************************************************)
(* The dispatcher specification: a Dispatcher whose tree was registered,   *)
(* one command string, and the run of Parse and then Execute on it.        *)
(* parseNodes runs in steps: one step tries one child of the innermost     *)
(* call, one step returns from the innermost call.  Execute runs in steps: *)
(* one step handles one context, one step ends a generation.               *)
(***************************************************************************)
LTest == <<"t">>
LQuery == <<"q">>
LRedirect == <<"r">>
LActual == <<"a">>
LNone == <<"n">>
LFork == <<"f">>
LGood == <<"g">>
LError == <<"e">>
LPick == <<"p">>
LDenied == <<"d">>
LLast == <<"z">>
LSome == <<"s">>
LModifier == <<"m">>
NIncorrect == <<"i", "n", "c", "o", "r", "r", "e", "c", "t">>
NRight == <<"r", "i", "g", "h", "t">>
NSub == <<"s", "u", "b">>
NFirst == <<"f", "i", "r", "s", "t">>
NSecond == <<"s", "e", "c", "o", "n", "d">>
NNumber == <<"n", "u", "m", "b", "e", "r">>
NGreedy == <<"g", "r", "e", "e", "d", "y">>
NWord == <<"w", "o", "r", "d">>
NVia == <<"v", "i", "a">>

\* a tree with redirects and forks to Root, a redirect to an inner node,
\* and two Int siblings that accept the same token
RedirectBuilders ==
    << Then(Then(Literal(LTest), Executes(Argument(NIncorrect, Int32), "c1")),
            Then(Argument(NRight, Int32), Executes(Argument(NSub, Int32), "c2"))),
       Redirect(Literal(LQuery), <<LTest>>),
       Redirect(Literal(LRedirect), <<>>),
       Executes(Literal(LActual), "c3"),
       Literal(LNone),
       Fork(Literal(LFork), <<>>, "modFail"),
       Fork(Literal(LGood), <<>>, "modOk"),
       Executes(Literal(LError), "cFail"),
       RedirectWithModifier(Literal(LModifier), <<>>, "modFail") >>

RedirectTokens ==
    {LTest, LQuery, LRedirect, LActual, LNone, LFork, LGood, LError, LModifier,
     <<"1">>, <<"x">>, <<"1", "x">>, <<>>}

\* a tree with string siblings that accept the same token, a literal
\* sibling whose requirement rejects, and an argument that redirects
AmbiguousBuilders ==
    << Then(Then(Then(Literal(LPick),
                      Then(Argument(NFirst, SingleWord),
                           Executes(Argument(NNumber, Int32), "c5"))),
                 Then(Executes(Argument(NSecond, SingleWord), "c6"),
                      Executes(Literal(LLast), "c7"))),
            Executes(Requires(Literal(LDenied), "deny"), "c4")),
       Then(Then(Then(Literal(LSome),
                      Executes(Argument(NGreedy, GreedyPhrase), "c8")),
                 Executes(Argument(NWord, SingleWord), "c9")),
            Redirect(Argument(NVia, SingleWord), <<>>)) >>

AmbiguousTokens == {LPick, LDenied, LLast, LSome, <<"x">>, <<"1">>, <<>>}

Grammars ==
    {[tree |-> h, tokens |-> RedirectTokens] : h \in RegisterAll(EmptyHeap, RedirectBuilders)}
    \cup
    {[tree |-> h, tokens |-> AmbiguousTokens] : h \in RegisterAll(EmptyHeap, AmbiguousBuilders)}

\* the tokens joined by single separators
RECURSIVE Join(_)
Join(ts) ==
    IF Len(ts) = 0
    THEN <<>>
    ELSE IF Len(ts) = 1 THEN ts[1] ELSE ts[1] \o <<ArgumentSeparator>> \o Join(Tail(ts))

TokenSeqs(tokens, n) == UNION {[1..k -> tokens] : k \in 0..n}

\* the locals of one parseNodes(originalReader, node, ctxSoFar) call: rel is
\* the slice RelevantNodes returned and i the place of the loop in it; ctx
\* and wait hold the child context while a recursive call runs; ret is the
\* result of a return from inside the loop.  from (the cursor of the
\* calling parseNodes, -1 below Parse) and tried (the children whose Parse
\* was called) are kept for the record of the call.
Frame(node, ctxSoFar, cursor, rel, from) ==
    [node |-> node, ctxSoFar |-> ctxSoFar, cursor |-> cursor, rel |-> rel, i |-> 1,
     potentials |-> <<>>, errs |-> EmptyMap, ctx |-> ctxSoFar, wait |-> "",
     ret |-> <<>>, from |-> from, tried |-> <<>>]

Top == stack[Len(stack)]

DispatcherInit ==
    /\ \E g \in Grammars :
           /\ tree = g.tree
           /\ \E ts \in TokenSeqs(g.tokens, MaxTokens) : input = Join(ts)
    /\ pc = "ready"
    /\ stack = <<>>
    /\ parse = <<>>
    /\ levels = <<>>
    /\ exec = NoExec
    /\ query = NoQuery
    /\ treeLog = <<>>
    /\ rdr = IdleReader
    /\ last = Call("new", <<>>, NoType, 0, Ok(0))

\* Dispatcher.Parse(ctx, command): ParseReader on a new reader, which calls
\* parseNodes on Root
Parse ==
    /\ pc = "ready"
    /\ rdr = IdleReader
    /\ \E rel \in RelevantNodes(tree, RootId, input, 0) :
           stack' = <<Frame(RootId, CommandContext("host", RootId, 0), 0, rel, -1)>>
    /\ pc' = "parsing"
    /\ UNCHANGED <<rdr, last, tree, treeLog, query, input, parse, levels, exec>>

\* Dispatcher.ParseReader(ctx, command) on the reader rdr, which may stand
\* at an offset into its string
ParseReader ==
    /\ pc = "ready"
    /\ rdr.String = input
    /\ \E rel \in RelevantNodes(tree, RootId, input, rdr.Cursor) :
           stack' = <<Frame(RootId, CommandContext("host", RootId, rdr.Cursor), rdr.Cursor,
                            rel, -1)>>
    /\ pc' = "parsing"
    /\ UNCHANGED <<rdr, last, tree, treeLog, query, input, parse, levels, exec>>

\* one turn of the loop of parseNodes over the relevant nodes: the frames
\* that may replace the innermost frame top, for the child tried and the
\* outcome p of its Parse and the separator check
parseNodesTry(top, child, p) ==
    LET ctx == [p.ctx EXCEPT !.Command = NodeOf(tree, child).command]
        redirect == NodeOf(tree, child).redirect
        canRead == IF redirect = NoNode THEN 2 ELSE 1
        c1 == Skip(p.Cursor)
        called == [top EXCEPT !.tried = Append(@, child)]
    IN  IF p.Err # ""
        THEN {<<[called EXCEPT !.errs = MapPut(@, child, Error(p.Err, top.cursor, p.Cursor)),
                               !.i = @ + 1]>>}
        ELSE IF CanReadLen(input, p.Cursor, canRead)
             THEN IF redirect # NoNode
                  THEN {<<[called EXCEPT !.ctx = ctx, !.wait = "redirect"],
                          Frame(redirect, CommandContext("parent", redirect, c1), c1, rel, top.cursor)>> :
                        rel \in RelevantNodes(tree, redirect, input, c1)}
                  ELSE {<<[called EXCEPT !.ctx = ctx, !.wait = "child"],
                          Frame(child, ctx, c1, rel, top.cursor)>> :
                        rel \in RelevantNodes(tree, child, input, c1)}
             ELSE {<<[called EXCEPT
                          !.potentials = Append(@, ParseResults(ctx, input, p.Cursor, EmptyMap)),
                          !.i = @ + 1]>>}

parseNodesTurn(top, child) ==
    IF ~CanUse(tree, child)
    THEN {<<[top EXCEPT !.i = @ + 1]>>}
    ELSE UNION {parseNodesTry(top, child, p) :
                p \in {ParseChild(tree, child, top.ctxSoFar, input, top.cursor)}}

parseNodesChild ==
    /\ pc = "parsing"
    /\ Top.ret = <<>>
    /\ Top.wait = ""
    /\ Top.i <= Len(Top.rel)
    /\ \E top \in {Top} :
           \E frames \in parseNodesTurn(top, top.rel[top.i]) :
               stack' = SubSeq(stack, 1, Len(stack) - 1) \o frames
    /\ UNCHANGED <<rdr, last, tree, treeLog, query, input, pc, parse, levels, exec>>

Returned_Potentials(top) ==
    IF Len(top.potentials) # 0
    THEN SortPotentials(top.potentials)[1]
    ELSE IF top.ret # <<>>
         THEN top.ret[1]
         ELSE ParseResults(top.ctxSoFar, input, top.cursor, top.errs)

\* the ParseResults the innermost parseNodes call returns
Returned(top) ==
    IF top.ret # <<>>
    THEN top.ret[1]
    ELSE IF Len(top.potentials) # 0
         THEN SortPotentials(top.potentials)[1]
         ELSE ParseResults(top.ctxSoFar, input, top.cursor, top.errs)

\* the return of the innermost parseNodes call, to the call that made it
\* or to Parse
parseNodesReturn ==
    /\ pc = "parsing"
    /\ Top.ret # <<>> \/ (Top.wait = "" /\ Top.i > Len(Top.rel))
    /\ LET top == Top
           result == Returned(top)
       IN  /\ levels' = Append(levels,
                               [node |-> top.node, from |-> top.from, cursor |-> top.cursor,
                                rel |-> top.rel, tried |-> top.tried,
                                potentials |-> top.potentials,
                                redirected |-> top.ret # <<>>, result |-> result])
           /\ IF Len(stack) = 1
              THEN /\ parse' = <<result>>
                   /\ stack' = <<>>
                   /\ pc' = "parsed"
              ELSE LET caller == stack[Len(stack) - 1]
                       back == IF caller.wait = "redirect"
                               THEN [caller EXCEPT
                                         !.ret = <<ParseResults([caller.ctx EXCEPT !.Child = <<result.Context>>],
                                                                input, result.Reader.Cursor, result.Errs)>>,
                                         !.wait = ""]
                               ELSE [caller EXCEPT
                                         !.potentials = Append(@, result),
                                         !.i = @ + 1,
                                         !.wait = ""]
                   IN  /\ stack' = Append(SubSeq(stack, 1, Len(stack) - 2), back)
                       /\ UNCHANGED <<parse, pc>>
    /\ UNCHANGED <<rdr, last, tree, treeLog, query, input, exec>>

\* ParseResults.firstErr, of a parse that holds one error
firstErr(p) == p.Errs[CHOOSE n \in DOMAIN p.Errs : TRUE]

\* the error Execute returns for a parse whose reader can read
UnreadError(p) ==
    IF Cardinality(DOMAIN p.Errs) = 1
    THEN firstErr(p)
    ELSE IF IsEmpty(p.Context.Range)
         THEN Error("UnknownCommand", p.Reader.Cursor, p.Reader.Cursor)
         ELSE Error("UnknownArgument", p.Reader.Cursor, p.Reader.Cursor)

\* the errors the failing command and the failing modifier return
CommandError == Error("CommandError", 0 - 1, 0 - 1)

ModifierError == Error("ModifierError", 0 - 1, 0 - 1)

Invoked(kind, name, ctx) == [kind |-> kind, name |-> name, ctx |-> ctx]

\* forked = forked || theContext.Forks
Forked_Last(forked, theContext) == theContext.Forks
Forked(forked, theContext) == forked \/ theContext.Forks

\* what Execute leaves of the ParseResults it is given: it reads Reader,
\* Errs and Context and builds its contexts anew, and writes none of them
Executed_Consumed(p) == [p EXCEPT !.Context.Command = "nil"]

Executed(p) == p

\* Dispatcher.Execute(parse), up to the loop over the contexts
Execute ==
    /\ pc = "parsed"
    /\ LET p == parse[1]
       IN  IF ReaderCanRead(p.Reader)
           THEN /\ exec' = [NoExec EXCEPT !.ret = <<UnreadError(p)>>]
                /\ pc' = "done"
           ELSE /\ exec' = [NoExec EXCEPT !.contexts = <<build(p.Context, p.Reader.String)>>]
                /\ pc' = "executing"
    /\ parse' = <<Executed(parse[1])>>
    /\ UNCHANGED <<rdr, last, tree, treeLog, query, input, stack, levels>>

\* one turn of the inner loop of Execute, on contexts[i]
ExecuteContext ==
    /\ pc = "executing"
    /\ exec.i < Len(exec.contexts)
    /\ LET theContext == exec.contexts[exec.i + 1]
           modifier == theContext.Modifier
           command == theContext.Command
           forked == Forked(exec.forked, theContext)
       IN  IF theContext.Child # <<>>
           THEN LET child == theContext.Child[1]
                    found == [exec EXCEPT !.forked = forked, !.foundCommand = TRUE]
                    applied == [found EXCEPT !.log = Append(@, Invoked("Apply", modifier, theContext))]
                IN  IF ~HasNodes(child)
                    THEN /\ exec' = [exec EXCEPT !.forked = forked, !.i = @ + 1]
                         /\ pc' = pc
                    ELSE IF modifier = "nil"
                         THEN /\ exec' = [found EXCEPT !.next = Append(@, CopyFor(child, "parent")),
                                                       !.i = @ + 1]
                              /\ pc' = pc
                         ELSE IF ~ModifierFails(modifier)
                              THEN /\ exec' = [applied EXCEPT !.next = Append(@, CopyFor(child, modifier)),
                                                              !.i = @ + 1]
                                   /\ pc' = pc
                              ELSE IF ~forked
                                   THEN /\ exec' = [applied EXCEPT !.ret = <<ModifierError>>]
                                        /\ pc' = "done"
                                   ELSE /\ exec' = [applied EXCEPT !.i = @ + 1]
                                        /\ pc' = pc
           ELSE IF command # "nil"
                THEN LET ran == [exec EXCEPT !.foundCommand = TRUE,
                                             !.log = Append(@, Invoked("Run", command, theContext))]
                     IN  IF CommandFails(command) /\ ~exec.forked
                         THEN /\ exec' = [ran EXCEPT !.ret = <<CommandError>>]
                              /\ pc' = "done"
                         ELSE /\ exec' = [ran EXCEPT !.i = @ + 1]
                              /\ pc' = pc
                ELSE /\ exec' = [exec EXCEPT !.i = @ + 1]
                     /\ pc' = pc
    /\ UNCHANGED <<rdr, last, tree, treeLog, query, input, stack, parse, levels>>

\* the end of a generation: contexts = next, and the return of Execute when
\* no context is left
ExecuteNext ==
    /\ pc = "executing"
    /\ exec.i = Len(exec.contexts)
    /\ IF Len(exec.next) # 0
       THEN /\ exec' = [exec EXCEPT !.contexts = exec.next, !.next = <<>>, !.i = 0]
            /\ pc' = pc
       ELSE /\ exec' = [exec EXCEPT
                            !.contexts = <<>>,
                            !.i = 0,
                            !.ret = IF ~exec.foundCommand
                                    THEN <<Error("UnknownCommand", parse[1].Reader.Cursor,
                                                 parse[1].Reader.Cursor)>>
                                    ELSE <<>>]
            /\ pc' = "done"
    /\ UNCHANGED <<rdr, last, tree, treeLog, query, input, stack, parse, levels>>

Next ==
    \/ Parse
    \/ parseNodesChild
    \/ parseNodesReturn
    \/ Execute
    \/ ExecuteContext
    \/ ExecuteNext

Spec == DispatcherInit /\ [][Next]_vars

\* Parse and Execute are calls that run to their return
SpecFair == Spec /\ WF_vars(Next)

(***************************************************************************)
(* Suggestions.  A Suggestion is [Range, Text] (the Tooltip is left out),  *)
(* a Suggestions [Range, Suggestions].                                     *)
(***************************************************************************)
Suggestion(range, text) == [Range |-> range, Text |-> text]

Suggestions(range, suggestions) == [Range |-> range, Suggestions |-> suggestions]

emptySuggestions == Suggestions(StringRange(0, 0), <<>>)

\* strings.HasPrefix
HasPrefix(s, prefix) == Len(prefix) <= Len(s) /\ SubSeq(s, 1, Len(prefix)) = prefix

\* Suggestion.Expand(command, strRange)
Expand(s, command, strRange) ==
    IF strRange = s.Range
    THEN s
    ELSE Suggestion(s.Range,
                    (IF strRange.Start < s.Range.Start
                     THEN Slice(command, strRange.Start, s.Range.Start)
                     ELSE <<>>)
                    \o s.Text
                    \o (IF strRange.End > s.Range.End
                        THEN Slice(command, s.Range.End, strRange.End)
                        ELSE <<>>))

\* the less function CreateSuggestion hands to sort.Slice
compareToIgnoreCase(s, other) == EqualFold(s.Text, other.Text)

\* sort.Slice on a slice of at most 12 elements: insertion sort
RECURSIVE SiftSuggestion(_, _)
SiftSuggestion(q, j) ==
    IF j > 1 /\ compareToIgnoreCase(q[j], q[j - 1])
    THEN SiftSuggestion(Swap(q, j, j - 1), j - 1)
    ELSE q

RECURSIVE SortSuggestionsFrom(_, _)
SortSuggestionsFrom(q, i) ==
    IF i > Len(q) THEN q ELSE SortSuggestionsFrom(SiftSuggestion(q, i), i + 1)

SortSuggestions(q) == SortSuggestionsFrom(q, 2)

\* the suggestions of q whose Text is not in texts and was not met before
RECURSIVE Deduplicate(_, _)
Deduplicate(q, texts) ==
    IF q = <<>>
    THEN <<>>
    ELSE IF Head(q).Text \in texts
         THEN Deduplicate(Tail(q), texts)
         ELSE <<Head(q)>> \o Deduplicate(Tail(q), texts \cup {Head(q).Text})

RECURSIVE MinStart(_, _)
MinStart(q, start) ==
    IF q = <<>> THEN start ELSE MinStart(Tail(q), min(Head(q).Range.Start, start))

RECURSIVE MaxEnd(_, _)
MaxEnd(q, end) ==
    IF q = <<>> THEN end ELSE MaxEnd(Tail(q), max(Head(q).Range.End, end))

ExpandAll(q, command, strRange) == [i \in DOMAIN q |-> Expand(q[i], command, strRange)]

\* CreateSuggestion(command, suggestions)
CreateSuggestion(command, suggestions) ==
    IF Len(suggestions) = 0
    THEN emptySuggestions
    ELSE The({Suggestions(strRange,
                          SortSuggestions(ExpandAll(Deduplicate(suggestions, {}), command,
                                                    strRange))) :
              strRange \in {StringRange(MinStart(suggestions, MaxInt32),
                                        MaxEnd(suggestions, MinInt32))}})

RECURSIVE Flatten(_)
Flatten(all) == IF all = <<>> THEN <<>> ELSE Head(all).Suggestions \o Flatten(Tail(all))

\* MergeSuggestions(command, input)
MergeSuggestions(command, all) ==
    IF Len(all) = 0
    THEN emptySuggestions
    ELSE IF Len(all) = 1
         THEN all[1]
         ELSE CreateSuggestion(command, Deduplicate(Flatten(all), {}))

\* &SuggestionsBuilder{Input, InputLowerCase, Start, Remaining, RemainingLowerCase}
SuggestionsBuilder(in, start) ==
    [Input |-> in, InputLowerCase |-> ToLower(in), Start |-> start,
     Remaining |-> Slice(in, start, Len(in)),
     RemainingLowerCase |-> Slice(ToLower(in), start, Len(in)),
     Result |-> <<>>]

\* SuggestionsBuilder.Suggest(text)
Suggest_Always(b, text) ==
    [b EXCEPT !.Result = Append(@, Suggestion(StringRange(b.Start, Len(b.Input)), text))]
Suggest(b, text) ==
    IF text # b.Remaining
    THEN [b EXCEPT !.Result = Append(@, Suggestion(StringRange(b.Start, Len(b.Input)), text))]
    ELSE b

\* SuggestionsBuilder.Build()
BuildSuggestions(b) == CreateSuggestion(b.Input, b.Result)

\* LiteralCommandNode.Suggestions
LiteralSuggestions(literal, b) ==
    IF HasPrefix(ToLower(literal), b.RemainingLowerCase)
    THEN BuildSuggestions(Suggest(b, literal))
    ELSE emptySuggestions

\* BoolArgumentType.Suggestions
BoolSuggestions(b) ==
    IF HasPrefix(<<"t", "r", "u", "e">>, b.RemainingLowerCase)
    THEN BuildSuggestions(Suggest(b, <<"t", "r", "u", "e">>))
    ELSE IF HasPrefix(<<"f", "a", "l", "s", "e">>, b.RemainingLowerCase)
         THEN BuildSuggestions(Suggest(b, <<"f", "a", "l", "s", "e">>))
         ELSE BuildSuggestions(b)

\* ArgumentCommandNode.Suggestions without custom suggestions:
\* ProvideSuggestions of the type, which Bool alone implements
ArgumentSuggestions(type, b) ==
    IF type.kind = "bool" THEN BoolSuggestions(b) ELSE emptySuggestions

\* ProvideSuggestions(node, ctx, builder)
ProvideSuggestions(h, n, b) ==
    IF NodeOf(h, n).kind = "literal"
    THEN LiteralSuggestions(NodeOf(h, n).name, b)
    ELSE ArgumentSuggestions(NodeOf(h, n).type, b)

SuggestionContext(parent, start) == [err |-> "", Parent |-> parent, Start |-> start]

ErrNoNodeBeforeCursor == [err |-> "NoNodeBeforeCursor", Parent |-> NoNode, Start |-> 0]

\* the loop of FindSuggestionContext over c.Nodes
RECURSIVE NodeAtCursor(_, _, _, _)
NodeAtCursor(nodes, prev, cursor, start) ==
    IF nodes = <<>>
    THEN IF prev = NoNode THEN ErrNoNodeBeforeCursor ELSE SuggestionContext(prev, start)
    ELSE IF Head(nodes).Range.Start <= cursor /\ cursor <= Head(nodes).Range.End
         THEN SuggestionContext(prev, Head(nodes).Range.Start)
         ELSE NodeAtCursor(Tail(nodes), Head(nodes).Node, cursor, start)

\* CommandContext.FindSuggestionContext(cursor)
RECURSIVE FindSuggestionContext(_, _)
FindSuggestionContext(c, cursor) ==
    IF c.Range.Start <= cursor
    THEN IF c.Range.End < cursor
         THEN IF c.Child # <<>>
              THEN FindSuggestionContext(c.Child[1], cursor)
              ELSE IF Len(c.Nodes) # 0
                   THEN SuggestionContext(c.Nodes[Len(c.Nodes)].Node,
                                          c.Nodes[Len(c.Nodes)].Range.End + 1)
                   ELSE SuggestionContext(c.RootNode, c.Range.Start)
         ELSE NodeAtCursor(c.Nodes, c.RootNode, cursor, c.Range.Start)
    ELSE ErrNoNodeBeforeCursor

\* the Suggestions of the children of parent, in the order of ChildrenOrdered
ChildSuggestions(h, parent, b) ==
    [i \in DOMAIN NodeOf(h, parent).childrenOrdered |->
        ProvideSuggestions(h, NodeOf(h, parent).childrenOrdered[i].value, b)]

SuggestionsAt(h, fullInput, found, cursor) ==
    IF found.err # ""
    THEN [err |-> found.err, res |-> emptySuggestions]
    ELSE [err |-> "",
          res |-> MergeSuggestions(
                      fullInput,
                      ChildSuggestions(h, found.Parent,
                                       SuggestionsBuilder(Slice(fullInput, 0, cursor),
                                                          min(found.Start, cursor))))]

\* Dispatcher.CompletionSuggestionsCursor(parse, cursor)
CompletionSuggestionsCursor(h, p, cursor) ==
    The({SuggestionsAt(h, p.Reader.String, found, cursor) :
         found \in {FindSuggestionContext(p.Context, cursor)}})

(***************************************************************************)
(* The suggestion specification: a Dispatcher whose tree was registered, a *)
(* reader that may stand at an offset behind one character of junk, the    *)
(* run of ParseReader on it, and then CompletionSuggestionsCursor at any   *)
(* cursor of the input.                                                    *)
(***************************************************************************)
NBaz == <<"b", "a", "z">>
NFlag == <<"f", "l", "a", "g">>
LParent == <<"p", "a">>

\* the literals foo, bar and baz below Root and below the literal pa, as
\* the completion tests register them, and a Bool argument below foo
SuggestBuilders ==
    << Then(Literal(NFoo), Argument(NFlag, Bool)),
       Literal(NBar),
       Literal(NBaz),
       Then(Then(Then(Literal(LParent), Literal(NFoo)), Literal(NBar)), Literal(NBaz)) >>

SuggestTokens ==
    {NFoo, NBar, <<"b">>, <<"B">>, <<"B", "a", "r">>, LParent, <<"p">>, <<"x">>, <<>>}

\* inputWithOffset: the junk before the offset the reader starts at
Junk(offset) == [i \in 1..offset |-> "Z"]

SuggestInit ==
    /\ tree \in RegisterAll(EmptyHeap, SuggestBuilders)
    /\ \E ts \in TokenSeqs(SuggestTokens, MaxTokens), offset \in 0..1 :
           /\ input = Junk(offset) \o Join(ts)
           /\ rdr = [String |-> input, Cursor |-> offset]
    /\ pc = "ready"
    /\ stack = <<>>
    /\ parse = <<>>
    /\ levels = <<>>
    /\ exec = NoExec
    /\ query = NoQuery
    /\ treeLog = <<>>
    /\ last = Call("new", <<>>, NoType, 0, Ok(0))

DoCompletionSuggestionsCursor ==
    /\ pc = "parsed"
    /\ \E cursor \in 0..Len(input) :
           query' = [op |-> "CompletionSuggestionsCursor", cursor |-> cursor,
                     ret |-> CompletionSuggestionsCursor(tree, parse[1], cursor)]
    /\ pc' = "done"
    /\ UNCHANGED <<rdr, last, tree, treeLog, input, stack, parse, levels, exec>>

SuggestNext ==
    \/ ParseReader
    \/ parseNodesChild
    \/ parseNodesReturn
    \/ DoCompletionSuggestionsCursor

SpecSuggest == SuggestInit /\ [][SuggestNext]_vars

(***************************************************************************)
(* The merge specification: CreateSuggestion and MergeSuggestions called   *)
(* on the command "abc" with up to MaxSuggestions suggestions (or          *)
(* Suggestions) whose ranges lie within the command.                       *)
(***************************************************************************)
MergeCommand == <<"a", "b", "c">>

SuggestionTexts == {<<"x">>, <<"X">>, <<"y">>}

CommandRanges ==
    {r \in {StringRange(a, b) : a, b \in 0..Len(MergeCommand)} : r.Start <= r.End}

SomeSuggestions ==
    {Suggestion(r, text) : r \in CommandRanges, text \in SuggestionTexts}

\* the Suggestions that CreateSuggestion makes of one suggestion, or of two
\* that start at the start of the command
SomeSuggestionsLists ==
    {emptySuggestions}
    \cup {CreateSuggestion(MergeCommand, <<s>>) : s \in SomeSuggestions}
    \cup {CreateSuggestion(MergeCommand, <<s, u>>) :
              s, u \in {x \in SomeSuggestions : x.Range.Start = 0 /\ x.Range.End < 2}}

MergeInit ==
    /\ input = MergeCommand
    /\ pc = "ready"
    /\ tree = EmptyHeap
    /\ stack = <<>>
    /\ parse = <<>>
    /\ levels = <<>>
    /\ exec = NoExec
    /\ query = NoQuery
    /\ treeLog = <<>>
    /\ rdr = IdleReader
    /\ last = Call("new", <<>>, NoType, 0, Ok(0))

DoCreateSuggestion ==
    /\ pc = "ready"
    /\ \E list \in TokenSeqs(SomeSuggestions, MaxSuggestions) :
           query' = [op |-> "CreateSuggestion", list |-> list,
                     ret |-> CreateSuggestion(input, list)]
    /\ pc' = "done"
    /\ UNCHANGED <<rdr, last, tree, treeLog, input, stack, parse, levels, exec>>

DoMergeSuggestions ==
    /\ pc = "ready"
    /\ \E all \in TokenSeqs(SomeSuggestionsLists, MaxSuggestions) :
           query' = [op |-> "MergeSuggestions", list |-> Flatten(all),
                     ret |-> MergeSuggestions(input, all)]
    /\ pc' = "done"
    /\ UNCHANGED <<rdr, last, tree, treeLog, input, stack, parse, levels, exec>>

MergeNext ==
    \/ DoCreateSuggestion
    \/ DoMergeSuggestions

SpecMerge == MergeInit /\ [][MergeNext]_vars

(***************************************************************************)
(* Usage.  AllUsage walks the tree below a node in the order of            *)
(* ChildrenOrdered and gathers one string for each executable node and     *)
(* each redirect.                                                          *)
(***************************************************************************)
UsageArgumentOpen == "["
UsageArgumentClose == "]"

\* CommandNode.UsageText
UsageText(h, n) ==
    IF NodeOf(h, n).kind = "root"
    THEN <<>>
    ELSE IF NodeOf(h, n).kind = "literal"
         THEN NodeOf(h, n).name
         ELSE <<UsageArgumentOpen>> \o NodeOf(h, n).name \o <<UsageArgumentClose>>

\* the first test of allUsage: a restricted walk leaves an unusable node out
allUsageSkips_Never(h, node, restricted) == FALSE

allUsageSkips(h, node, restricted) == restricted /\ ~CanUse(h, node)

\* the string allUsage appends for a node that redirects
allUsageRedirect(h, node, prefix) ==
    (IF prefix = <<>> THEN UsageText(h, node) ELSE prefix)
    \o <<ArgumentSeparator>>
    \o (IF NodeOf(h, node).redirect = RootId
        THEN <<".", ".", ".">>
        ELSE <<"-", ">", " ">> \o UsageText(h, NodeOf(h, node).redirect))

\* the prefix allUsage hands to the walk of a child
allUsagePrefix(h, child, prefix) ==
    (IF prefix # <<>> THEN prefix \o <<ArgumentSeparator>> ELSE <<>>) \o UsageText(h, child)

\* allUsage(ctx, node, result, prefix, restricted); allUsageRange is the
\* Range over node.ChildrenOrdered() from its i-th entry on
RECURSIVE allUsage(_, _, _, _, _)
RECURSIVE allUsageRange(_, _, _, _, _, _)
allUsageRange(h, ordered, i, result, prefix, restricted) ==
    IF i > Len(ordered)
    THEN result
    ELSE The({allUsageRange(h, ordered, i + 1, r, prefix, restricted) :
              r \in {allUsage(h, ordered[i].value, result,
                               allUsagePrefix(h, ordered[i].value, prefix), restricted)}})

allUsageFrom(h, node, result, prefix, restricted) ==
    IF NodeOf(h, node).redirect # NoNode
    THEN Append(result, allUsageRedirect(h, node, prefix))
    ELSE allUsageRange(h, NodeOf(h, node).childrenOrdered, 1, result, prefix, restricted)

allUsage(h, node, result, prefix, restricted) ==
    IF allUsageSkips(h, node, restricted)
    THEN result
    ELSE The({allUsageFrom(h, node, r, prefix, restricted) :
              r \in {IF NodeOf(h, node).command # "nil" THEN Append(result, prefix)
                                                          ELSE result}})

\* Dispatcher.AllUsage(ctx, node, restricted)
AllUsage(h, node, restricted) == allUsage(h, node, <<>>, <<>>, restricted)

(***************************************************************************)
(* The usage specification: AllUsage called on every node of the tree      *)
(* that the first k Register calls of setupUsage build, followed by some   *)
(* of three more: an argument, an executable redirect, and a second        *)
(* registration of "j" that gives the redirecting node a child.            *)
(***************************************************************************)
U1 == <<"1">>
U2 == <<"2">>
U3 == <<"3">>
UI == <<"i">>
UII == <<"i", "i">>
UH == <<"h">>
UJ == <<"j">>

setupUsage ==
    << Then(Then(Literal(<<"a">>),
                 Then(Then(Literal(U1), Executes(Literal(UI), "c1")),
                      Executes(Literal(UII), "c1"))),
            Then(Then(Literal(U2), Executes(Literal(UI), "c1")),
                 Executes(Literal(UII), "c1"))),
       Then(Literal(<<"b">>), Executes(Literal(U1), "c1")),
       Executes(Literal(<<"c">>), "c1"),
       Executes(Requires(Literal(<<"d">>), "deny"), "c1"),
       Then(Executes(Literal(<<"e">>), "c1"),
            Then(Then(Executes(Literal(U1), "c1"), Executes(Literal(UI), "c1")),
                 Executes(Literal(UII), "c1"))),
       Then(Then(Literal(<<"f">>),
                 Then(Then(Literal(U1), Executes(Literal(UI), "c1")),
                      Requires(Executes(Literal(UII), "c1"), "deny"))),
            Then(Then(Literal(U2), Requires(Executes(Literal(UI), "c1"), "deny")),
                 Executes(Literal(UII), "c1"))),
       Then(Executes(Literal(<<"g">>), "c1"),
            Then(Literal(U1), Executes(Literal(UI), "c1"))),
       Then(Then(Then(Executes(Literal(UH), "c1"),
                      Then(Literal(U1), Executes(Literal(UI), "c1"))),
                 Then(Literal(U2), Then(Literal(UI), Executes(Literal(UII), "c1")))),
            Executes(Literal(U3), "c1")),
       Then(Then(Executes(Literal(UI), "c1"), Executes(Literal(U1), "c1")),
            Executes(Literal(U2), "c1")),
       Redirect(Literal(UJ), <<>>),
       Redirect(Literal(<<"k">>), <<UH>>) >>

MoreUsage ==
    << Then(Literal(<<"l">>), Executes(Argument(NFlag, Bool), "c1")),
       Redirect(Executes(Literal(<<"m">>), "c1"), <<UH>>),
       Then(Literal(UJ), Executes(Literal(U1), "c1")) >>

UsageInit ==
    /\ \E k \in 0..Len(setupUsage), more \in SUBSET DOMAIN MoreUsage :
           tree \in RegisterAll(EmptyHeap,
                                SubSeq(setupUsage, 1, k)
                                \o SelectSeq(MoreUsage,
                                             LAMBDA b : \E i \in more : MoreUsage[i] = b))
    /\ input = <<>>
    /\ pc = "ready"
    /\ stack = <<>>
    /\ parse = <<>>
    /\ levels = <<>>
    /\ exec = NoExec
    /\ query = NoQuery
    /\ treeLog = <<>>
    /\ rdr = IdleReader
    /\ last = Call("new", <<>>, NoType, 0, Ok(0))

DoAllUsage ==
    /\ pc = "ready"
    /\ \E node \in 0..(Len(tree) - 1), restricted \in BOOLEAN :
           query' = [op |-> "AllUsage", node |-> node, restricted |-> restricted,
                     ret |-> AllUsage(tree, node, restricted)]
    /\ pc' = "done"
    /\ UNCHANGED <<rdr, last, tree, treeLog, input, stack, parse, levels, exec>>

UsageNext == DoAllUsage

SpecUsage == UsageInit /\ [][UsageNext]_vars

(***************************************************************************)
(* The order specification: up to MaxTreeOps Register calls of literals    *)
(* that share their names, so that later calls merge one or two children   *)
(* onto a registered literal, and then AllUsage on a node of the tree.     *)
(***************************************************************************)
OrderBuilders ==
    { Then(Literal(<<"a">>), Executes(Literal(U1), "c1")),
      Then(Then(Literal(<<"a">>), Executes(Literal(U2), "c1")), Executes(Literal(U3), "c1")),
      Then(Then(Literal(<<"a">>), Executes(Literal(U3), "c1")), Executes(Literal(U1), "c1")),
      Executes(Literal(<<"b">>), "c1") }

OrderInit ==
    /\ tree = EmptyHeap
    /\ treeLog = <<>>
    /\ input = <<>>
    /\ pc = "ready"
    /\ stack = <<>>
    /\ parse = <<>>
    /\ levels = <<>>
    /\ exec = NoExec
    /\ query = NoQuery
    /\ rdr = IdleReader
    /\ last = Call("new", <<>>, NoType, 0, Ok(0))

DoRegisterLiteral ==
    /\ pc = "ready"
    /\ Len(treeLog) < MaxTreeOps
    /\ \E b \in OrderBuilders :
           \E h2 \in Register(tree, b) :
               /\ tree' = h2
               /\ treeLog' = Append(treeLog, TreeCall("Register", RootId, Len(tree), <<>>, b))
    /\ UNCHANGED <<rdr, last, dvars>>

OrderNext ==
    \/ DoRegisterLiteral
    \/ DoAllUsage

SpecOrder == OrderInit /\ [][OrderNext]_vars

(***************************************************************************)
(* The command specification: ParseReader and Execute on the trees of the  *)
(* execution tests (a literal with a command and an Int argument below it, *)
(* with and without a command of its own), and on a tree with a quotable   *)
(* argument and a redirect to Root, the reader starting at offset 0 or 1.  *)
(* A finished Execute is called once more on the same ParseResults.        *)
(***************************************************************************)
NText == <<"t", "e", "x", "t">>
LSay == <<"s", "a", "y">>

SubcommandBuilders ==
    <<Executes(Then(Literal(NFoo), Executes(Argument(NBar, Int32), "c2")), "c1")>>

OrphanedBuilders ==
    <<Executes(Then(Literal(NFoo), Argument(NBar, Int32)), "c1")>>

QuoteBuilders ==
    << Then(Literal(LSay), Executes(Argument(NText, QuotablePhase), "c3")),
       Redirect(Literal(LRedirect), <<>>),
       RedirectWithModifier(Literal(LModifier), <<>>, "modOk") >>

SubcommandTokens == {NFoo, NBar, <<"5">>, <<"5", "x">>, NFoo \o <<"$">>, <<>>}

QuoteTokens ==
    {LSay, LRedirect, LModifier, <<"a">>,
     <<SyntaxDoubleQuote, "a">>,
     <<SyntaxDoubleQuote, "a", SyntaxDoubleQuote>>,
     <<SyntaxDoubleQuote, "a", SyntaxDoubleQuote, "b">>,
     <<SyntaxDoubleQuote, SyntaxEscape, "x", SyntaxDoubleQuote>>}

CommandGrammars ==
    {[tree |-> h, tokens |-> SubcommandTokens] :
         h \in RegisterAll(EmptyHeap, SubcommandBuilders)
               \cup RegisterAll(EmptyHeap, OrphanedBuilders)}
    \cup
    {[tree |-> h, tokens |-> QuoteTokens] : h \in RegisterAll(EmptyHeap, QuoteBuilders)}

CommandsInit ==
    /\ \E g \in CommandGrammars :
           /\ tree = g.tree
           /\ \E ts \in TokenSeqs(g.tokens, MaxTokens), offset \in 0..1 :
                  /\ input = Junk(offset) \o Join(ts)
                  /\ rdr = [String |-> input, Cursor |-> offset]
    /\ pc = "ready"
    /\ stack = <<>>
    /\ parse = <<>>
    /\ levels = <<>>
    /\ exec = NoExec
    /\ query = NoQuery
    /\ treeLog = <<>>
    /\ last = Call("new", <<>>, NoType, 0, Ok(0))

\* a second Execute of the ParseResults that the first Execute was given
ExecuteAgain ==
    /\ pc = "done"
    /\ query = NoQuery
    /\ query' = [op |-> "Execute", ret |-> exec.ret, log |-> exec.log, parse |-> parse[1]]
    /\ exec' = NoExec
    /\ pc' = "parsed"
    /\ UNCHANGED <<rdr, last, tree, treeLog, input, stack, parse, levels>>

CommandsNext ==
    \/ ParseReader
    \/ parseNodesChild
    \/ parseNodesReturn
    \/ Execute
    \/ ExecuteContext
    \/ ExecuteNext
    \/ ExecuteAgain

SpecCommands == CommandsInit /\ [][CommandsNext]_vars

(***************************************************************************)
(* The Bool specification: BoolArgumentType.Suggestions called with a      *)
(* SuggestionsBuilder over an input and any start within it, so that the   *)
(* remaining text is empty, a prefix of "true" or "false" in either case,  *)
(* one of the two words, or neither.                                       *)
(***************************************************************************)
LTrue == <<"t", "r", "u", "e">>

LFalse == <<"f", "a", "l", "s", "e">>

BoolTexts ==
    {<<>>, <<"t">>, <<"t", "r">>, LTrue, <<"T">>, <<"T", "R", "U", "E">>, <<"T", "r", "u", "e">>,
     <<"f">>, <<"f", "a">>, LFalse, <<"F">>, <<"F", "A", "L", "S", "E">>,
     <<"x">>, LTrue \o <<"x">>, <<"t", "f">>, <<"a">>}

BoolInputs == {before \o r : before \in {<<>>, NFoo \o <<ArgumentSeparator>>}, r \in BoolTexts}

BoolInit ==
    /\ input \in BoolInputs
    /\ tree = EmptyHeap
    /\ pc = "ready"
    /\ stack = <<>>
    /\ parse = <<>>
    /\ levels = <<>>
    /\ exec = NoExec
    /\ query = NoQuery
    /\ treeLog = <<>>
    /\ rdr = IdleReader
    /\ last = Call("new", <<>>, NoType, 0, Ok(0))

DoBoolSuggestions ==
    /\ pc = "ready"
    /\ \E start \in 0..Len(input) :
           query' = [op |-> "BoolSuggestions",
                     builder |-> SuggestionsBuilder(input, start),
                     ret |-> BoolSuggestions(SuggestionsBuilder(input, start))]
    /\ pc' = "done"
    /\ UNCHANGED <<rdr, last, tree, treeLog, input, stack, parse, levels, exec>>

BoolNext == DoBoolSuggestions

SpecBool == BoolInit /\ [][BoolNext]_vars

(***************************************************************************)
(* Claims about Parse and Execute, under Spec                              *)
(***************************************************************************)
Exhausted(r) == ~CanRead(r.Reader.String, r.Reader.Cursor)

ErrCount(r) == Cardinality(DOMAIN r.Errs)

Ran == {k \in DOMAIN exec.log : exec.log[k].kind = "Run"}

\* Execute returned, on a parse whose reader could still read
ExecutedUnread == pc = "done" /\ ~Exhausted(parse[1])

\* C1: Execute on a parse whose reader can still read invokes no command
\* and no modifier and returns the one recorded error when Errs holds
\* exactly one, else UnknownCommand when the Range of the context is empty,
\* else UnknownArgument, the latter two with the cursor of the parse's
\* reader.
C1_UnreadParseError ==
    ExecutedUnread =>
        LET p == parse[1]
        IN  /\ exec.log = <<>>
            /\ Len(exec.ret) = 1
            /\ IF ErrCount(p) = 1
               THEN \E n \in DOMAIN p.Errs : exec.ret[1] = p.Errs[n]
               ELSE /\ exec.ret[1].Err = IF p.Context.Range.Start = p.Context.Range.End
                                         THEN "UnknownCommand"
                                         ELSE "UnknownArgument"
                    /\ exec.ret[1].Cursor = p.Reader.Cursor

\* Execute returned UnknownArgument at the first unread byte, behind a
\* parse that recorded two errors
C1_Witness ==
    /\ ExecutedUnread
    /\ ErrCount(parse[1]) = 2
    /\ exec.ret[1].Err = "UnknownArgument"
    /\ exec.ret[1].Cursor > 0

\* C2: when Execute returns a nil error, at least one Command.Run was
\* invoked during the call.
C2_NilMeansRan == (pc = "done" /\ exec.ret = <<>>) => Ran # {}

\* the parseNodes calls that returned from the selection behind the loop
Selected(L) == ~L.redirected /\ Len(L.potentials) # 0

\* C3 as stated: whenever the children of a node gave several potentials
\* and one of them read the whole input, the parseNodes call on that node
\* returns a result whose reader is exhausted.
C3_ExhaustedPreferred ==
    \A k \in DOMAIN levels :
        (/\ Len(levels[k].potentials) > 1
         /\ \E j \in DOMAIN levels[k].potentials : Exhausted(levels[k].potentials[j]))
            => Exhausted(levels[k].result)

\* C3, amended: the same, of the calls that return from the selection (no
\* child with a redirect parsed with input left behind it).
C3_ExhaustedSelected ==
    \A k \in DOMAIN levels :
        (/\ Selected(levels[k])
         /\ \E j \in DOMAIN levels[k].potentials : Exhausted(levels[k].potentials[j]))
            => /\ Exhausted(levels[k].result)
               /\ \E j \in DOMAIN levels[k].potentials :
                      levels[k].result = levels[k].potentials[j]

\* the selection preferred an exhausted potential met second to an
\* unexhausted one met first
C3_Witness ==
    \E k \in DOMAIN levels :
        /\ Selected(levels[k])
        /\ Len(levels[k].potentials) = 2
        /\ ~Exhausted(levels[k].potentials[1])
        /\ Exhausted(levels[k].potentials[2])
        /\ levels[k].result = levels[k].potentials[2]

\* p is at least as good as q: exhausted before unexhausted, then without
\* errors before with errors
AtLeastAsGood(p, q) ==
    \/ Exhausted(p) /\ ~Exhausted(q)
    \/ Exhausted(p) = Exhausted(q) /\ (ErrCount(p) = 0 \/ ErrCount(q) # 0)

\* C4: the selection returns the first potential, in the order met, among
\* those that no potential beats: of potentials that agree on exhaustion
\* one without errors is returned before one with errors.
C4_NoErrsPreferred ==
    \A k \in DOMAIN levels :
        Selected(levels[k]) =>
            LET ps == levels[k].potentials
                best == {j \in DOMAIN ps : \A i \in DOMAIN ps : AtLeastAsGood(ps[j], ps[i])}
            IN  \E j \in best : /\ levels[k].result = ps[j]
                                /\ \A i \in best : j <= i

\* C5: when the token at the cursor names a literal child of the node,
\* RelevantNodes returns that literal alone and parseNodes calls Parse on
\* no argument child of the node, and on no child at all when the
\* literal's requirement rejects.
C5_LiteralShortCircuit ==
    \A k \in DOMAIN levels :
        LET L == levels[k]
            literals == NodeOf(tree, L.node).literals
            text == NextToken(input, L.cursor)
        IN  text \in DOMAIN literals =>
                /\ L.rel = <<literals[text]>>
                /\ \A i \in DOMAIN L.tried : L.tried[i] = literals[text]
                /\ ~CanUse(tree, literals[text]) => L.tried = <<>>

\* a node with argument children and a literal child whose requirement
\* rejects, the token naming the literal: nothing was tried
C5_Witness ==
    \E k \in DOMAIN levels :
        LET L == levels[k]
            node == NodeOf(tree, L.node)
            text == NextToken(input, L.cursor)
        IN  /\ text \in DOMAIN node.literals
            /\ DOMAIN node.arguments # {}
            /\ ~CanUse(tree, node.literals[text])
            /\ L.tried = <<>>

\* the argument children of the node in the order of insertion
ArgumentsInOrder(node) ==
    LET args == SelectSeq(node.childrenOrdered, LAMBDA e : e.key \in DOMAIN node.arguments)
    IN  [i \in DOMAIN args |-> args[i].value]

\* C6: when no literal child is named by the token, RelevantNodes returns
\* the argument children in the order of insertion, on every call.
C6_InsertionOrder ==
    \A k \in DOMAIN levels :
        LET L == levels[k]
            node == NodeOf(tree, L.node)
        IN  NextToken(input, L.cursor) \notin DOMAIN node.literals =>
                L.rel = ArgumentsInOrder(node)

\* every parseNodes call in progress began at a cursor past the cursor of
\* the call that made it, and within the input
DescentsAdvance ==
    \A k \in DOMAIN stack :
        /\ stack[k].from < stack[k].cursor
        /\ stack[k].cursor <= Len(input)
        /\ k > 1 => stack[k].from = stack[k - 1].cursor

\* the cursors of the results and of the errors of the calls that returned
CursorsWithinInput ==
    \A k \in DOMAIN levels :
        LET r == levels[k].result
        IN  /\ levels[k].from < levels[k].cursor
            /\ levels[k].cursor <= r.Reader.Cursor
            /\ r.Reader.Cursor <= Len(input)
            /\ \A n \in DOMAIN r.Errs : /\ r.Errs[n].Cursor <= Len(input)
                                        /\ r.Errs[n].At <= Len(input)

\* C7: Parse returns a ParseResults on every input and every tree, trees
\* with cyclic redirects among them; every recursive parseNodes call starts
\* at a cursor strictly greater than the cursor of its caller, and no
\* cursor exceeds the length of the input.  Checked under SpecFair.
C7_ParseTerminates ==
    /\ [](DescentsAdvance /\ CursorsWithinInput)
    /\ <>(Len(parse) = 1)

\* the literal that redirects to Root was followed twice: Root is parsed
\* for the third time, below itself
C7_Witness ==
    /\ Len(stack) = 3
    /\ \A k \in DOMAIN stack : stack[k].node = RootId
    /\ stack[3].cursor > stack[2].cursor

(***************************************************************************)
(* Claims about the reader (checked under SpecReader).                     *)
(***************************************************************************)
NodeParseCalled == last.op \in {"LiteralParse", "ArgumentParse"}

QuoteErrors == {"ExpectedEndOfQuote", "InvalidEscape"}

\* C8 as stated: the Parse of a literal or builtin-type argument node on a
\* reader at cursor c succeeds with a cursor >= c or fails with the cursor
\* back at c.
C8_RewoundOnEveryFailure ==
    NodeParseCalled =>
        IF last.res.Err = ""
        THEN rdr.Cursor >= last.start
        ELSE rdr.Cursor = last.start

\* C8 amended: the Parse of a node never moves the cursor backwards nor past
\* the end of the input; on failure the cursor is back at c, except that a
\* quoted-string error of a QuotablePhrase or Bool argument leaves it where
\* the error was raised (ExpectedEndOfQuote at the end of the input,
\* InvalidEscape on the offending character) and ExpectedBool leaves it
\* behind the empty quoted string it read.
C8_CursorMonotone ==
    NodeParseCalled =>
        /\ last.start <= rdr.Cursor
        /\ rdr.Cursor <= Len(rdr.String)
        /\ last.res.Err \in QuoteErrors =>
               /\ last.type.kind \in {"string", "bool"}
               /\ IsQuotedStringStart(Peek(rdr.String, last.start))
               /\ rdr.Cursor > last.start
               /\ last.res.Err = "ExpectedEndOfQuote" => rdr.Cursor = Len(rdr.String)
        /\ last.res.Err = "ExpectedBool" =>
               \/ rdr.Cursor = last.start
               \/ /\ rdr.Cursor = last.start + 2
                  /\ IsQuotedStringStart(Peek(rdr.String, last.start))
        /\ last.res.Err \notin QuoteErrors \cup {"", "ExpectedBool"} =>
               rdr.Cursor = last.start

\* C8 witness: an argument node failed on an unterminated quote and left the
\* cursor at the end of the input, behind the cursor it was called at.
C8_Witness ==
    /\ last.op = "ArgumentParse"
    /\ last.res.Err = "ExpectedEndOfQuote"
    /\ rdr.Cursor > last.start + 1

\* C9: the error positions of ReadQuotedString and readInt.
\* ReadQuotedString: ExpectedStartOfQuote exactly when the next byte is no
\* quote, the cursor unchanged; ExpectedEndOfQuote with the cursor at the end
\* of the input, and always when neither the opening quote nor a backslash
\* follows it; InvalidEscape with the cursor on a byte that follows a
\* backslash and is neither the opening quote nor a backslash.  readInt:
\* ExpectedInt exactly when no allowed-number byte follows, the cursor
\* unchanged; InvalidInt with the cursor back at the start of the token.
C9_ErrorPositions ==
    LET s == rdr.String
        c0 == last.start
        err == last.res.Err
        open == Peek(s, c0)
        rest == Slice(s, c0 + 1, Len(s))
    IN  /\ last.op = "ReadQuotedString" =>
            /\ (CanRead(s, c0) /\ ~IsQuotedStringStart(open)) <=> err = "ExpectedStartOfQuote"
            /\ err = "ExpectedStartOfQuote" => rdr.Cursor = c0
            /\ err = "ExpectedEndOfQuote" => rdr.Cursor = Len(s)
            /\ (/\ CanRead(s, c0)
                /\ IsQuotedStringStart(open)
                /\ \A i \in DOMAIN rest : rest[i] \notin {open, SyntaxEscape})
                   => err = "ExpectedEndOfQuote"
            /\ err = "InvalidEscape" =>
                   /\ rdr.Cursor >= c0 + 2
                   /\ CanRead(s, rdr.Cursor)
                   /\ Peek(s, rdr.Cursor - 1) = SyntaxEscape
                   /\ Peek(s, rdr.Cursor) \notin {open, SyntaxEscape}
            /\ err \in {"", "ExpectedStartOfQuote", "ExpectedEndOfQuote", "InvalidEscape"}
        /\ last.op \in {"ReadInt32", "ReadInt64"} =>
            /\ (~CanRead(s, c0) \/ ~IsAllowedNumber(Peek(s, c0))) <=> err = "ExpectedInt"
            /\ err \in {"ExpectedInt", "InvalidInt"} => rdr.Cursor = c0
            /\ err = "InvalidInt" =>
                   ~ParseIntOf(Slice(s, c0, SkipWhileNumber(s, c0)), 32).ok
            /\ err \in {"", "ExpectedInt", "InvalidInt"}

\* C9 witness: ReadQuotedString met the other kind of quote behind a
\* backslash and reports InvalidEscape on it.
C9_Witness ==
    /\ last.op = "ReadQuotedString"
    /\ last.res.Err = "InvalidEscape"
    /\ IsQuotedStringStart(Peek(rdr.String, rdr.Cursor))
    /\ Peek(rdr.String, rdr.Cursor) # Peek(rdr.String, last.start)

(***************************************************************************)
(* Claims about the grammar tree, under SpecTree                           *)
(***************************************************************************)
LastTreeCall == treeLog[Len(treeLog)]

\* the step of an AddChild (or Register) call: tree is the heap before the
\* call, tree' the heap after it, and the call is the last of treeLog'
MergeStep ==
    (treeLog' # treeLog /\ treeLog'[Len(treeLog')].op \in {"Register", "AddChild"}) =>
        LET call == treeLog'[Len(treeLog')]
            n == call.n
            node == NodeOf(tree', call.id)
        IN  IF node.kind = "root"
            THEN tree' = tree
            ELSE IF node.name \in DOMAIN NodeOf(tree, n).children
                 THEN LET child == NodeOf(tree, n).children[node.name]
                          old == NodeOf(tree, child)
                          new == NodeOf(tree', child)
                      IN  /\ NodeOf(tree', n) = NodeOf(tree, n)
                          /\ new.command = IF node.command # "nil" THEN node.command
                                                                   ELSE old.command
                          /\ new.requirement = old.requirement
                          /\ new.redirect = old.redirect
                          /\ new.modifier = old.modifier
                          /\ new.forks = old.forks
                          /\ \A k \in DOMAIN old.children : new.children[k] = old.children[k]
                          /\ \A k \in DOMAIN node.children :
                                 /\ k \in DOMAIN new.children
                                 /\ k \notin DOMAIN old.children =>
                                        new.children[k] = node.children[k]
                 ELSE NodeOf(tree', n).children[node.name] = call.id

\* 'base -> foo' and 'base -> bar' were registered, each in a call of its own
BaseFooBarRegistered ==
    /\ Len(treeLog) = 2
    /\ treeLog[1].op = "Register"
    /\ treeLog[2].op = "Register"
    /\ {treeLog[1].b, treeLog[2].b} = {BaseFoo, BaseBar}

BaseFooBarMerged ==
    LET root == NodeOf(tree, RootId)
    IN  /\ DOMAIN root.children = {NBase}
        /\ Len(root.childrenOrdered) = 1
        /\ root.children[NBase] = treeLog[1].id
        /\ LET base == NodeOf(tree, root.children[NBase])
           IN  /\ DOMAIN base.children = {NFoo, NBar}
               /\ NodeOf(tree, base.children[NFoo]).command = "c1"
               /\ NodeOf(tree, base.children[NBar]).command = "c2"

\* C10: AddChild of a node named as an existing child keeps the existing
\* child object, replaces its command iff the incoming node has one, adds
\* (merging recursively) every child of the incoming node to it and leaves
\* its requirement, redirect, modifier and fork flag alone; AddChild of a
\* RootCommandNode changes nothing; and after 'base -> foo' and
\* 'base -> bar' were registered separately Root has the one child 'base'
\* with the children foo and bar, each with its own command.
C10_AddChildMerges == [][MergeStep]_vars /\ [](BaseFooBarRegistered => BaseFooBarMerged)

\* 'base -> bar' was merged onto the 'base' that 'base -> foo' registered
C10_Witness ==
    /\ BaseFooBarRegistered
    /\ treeLog[1].b = BaseFoo
    /\ NodeOf(tree, RootId).children[NBase] # LastTreeCall.id
    /\ FindNode(tree, <<NBase, NBar>>) # NoNode

\* the tree below node n: what the node holds and, in the order of
\* childrenOrdered and by name, the trees below its children
RECURSIVE TreeView(_, _)
TreeView(h, n) ==
    LET node == NodeOf(h, n)
    IN  [kind |-> node.kind, name |-> node.name, type |-> node.type,
         command |-> node.command, requirement |-> node.requirement,
         redirect |-> node.redirect, modifier |-> node.modifier, forks |-> node.forks,
         literals |-> DOMAIN node.literals, arguments |-> DOMAIN node.arguments,
         ordered |-> [i \in DOMAIN node.childrenOrdered |->
                          TreeView(h, node.childrenOrdered[i].value)],
         children |-> [k \in DOMAIN node.children |-> TreeView(h, node.children[k])]]

\* the step of a Register call
Registers == treeLog' # treeLog /\ treeLog'[Len(treeLog')].op = "Register"

\* a Register of the builder the call before it registered leaves the tree
\* below Root as it was
RegisterAgainStep ==
    (/\ Registers
     /\ treeLog # <<>>
     /\ LastTreeCall.op = "Register"
     /\ LastTreeCall.b = treeLog'[Len(treeLog')].b)
        => TreeView(tree', RootId) = TreeView(tree, RootId)

\* a Register of a literal without children and with a command, named as a
\* child of Root, changes the command of that child and nothing else
RegisterCommandStep ==
    LET b == treeLog'[Len(treeLog')].b
        children == NodeOf(tree, RootId).children
    IN  (Registers /\ b.then = <<>> /\ b.command # "nil" /\ b.name \in DOMAIN children)
            => \A id \in NodeIds(tree) :
                   NodeOf(tree', id) =
                       IF id = children[b.name]
                       THEN [NodeOf(tree, id) EXCEPT !.command = b.command]
                       ELSE NodeOf(tree, id)

\* C11: registering a literal subtree twice gives the tree that registering
\* it once gives (names, kinds, child order, commands, requirements,
\* redirects, modifiers and fork flags at every path); registering a node
\* named as an existing literal of Root, without children and with a new
\* command, changes only the command of that literal.
C11_MergeIdempotent == [][RegisterAgainStep /\ RegisterCommandStep]_vars

\* 'base -> bar' was registered twice onto the 'base' of 'base -> foo', and
\* foo and bar are the children of base, in that order
C11_Witness ==
    /\ Len(treeLog) = 3
    /\ \A k \in 1..3 : treeLog[k].op = "Register"
    /\ treeLog[1].b = BaseFoo
    /\ treeLog[2].b = BaseBar
    /\ treeLog[3].b = BaseBar
    /\ LET base == NodeOf(tree, FindNode(tree, <<NBase>>))
       IN  /\ Len(base.childrenOrdered) = 2
           /\ base.childrenOrdered[1].key = NFoo
           /\ base.childrenOrdered[2].key = NBar

\* the nodes reachable from Root through child edges
Reachable(h) ==
    {list[Len(list)] : list \in UNION {Elems(nodes) : nodes \in addPaths(h, RootId, <<>>)}}

\* the name sequences that lead from Root to a node
Routes(h) ==
    {PathNames(h, list) : list \in UNION {Elems(nodes) : nodes \in addPaths(h, RootId, <<>>)}}

\* the paths of one to three of the names the calls use
NamePaths == UNION {[1..k -> {NBase, NFoo, NBar}] : k \in 1..3}

\* C12: FindNode(Path(n)...) is n for every node n other than Root that is
\* reachable from Root through child edges, whichever path Path returns;
\* FindNode of a path with a missing name is nil.
C12_PathRoundTrip ==
    /\ \A n \in Reachable(tree) \ {RootId} :
           \A p \in Path(tree, n) : p # <<>> /\ FindNode(tree, p) = n
    /\ \A p \in NamePaths : p \notin Routes(tree) => FindNode(tree, p) = NoNode

\* a node two levels below Root beside a sibling, found by its path, and a
\* path whose second name is missing
C12_Witness ==
    /\ FindNode(tree, <<NBase, NFoo>>) # NoNode
    /\ <<NBase, NFoo>> \in Path(tree, FindNode(tree, <<NBase, NFoo>>))
    /\ FindNode(tree, <<NBase, NBar>>) # NoNode
    /\ <<NBase, NBase>> \notin Routes(tree)
    /\ FindNode(tree, <<NBase, NBase>>) = NoNode

\* the children, the indexes and the ordered children of one node agree
IndexesAgree(h, node) ==
    LET ordered == node.childrenOrdered
    IN  /\ \A i, j \in DOMAIN ordered : ordered[i].key = ordered[j].key => i = j
        /\ DOMAIN node.literals \cap DOMAIN node.arguments = {}
        /\ DOMAIN node.literals \cup DOMAIN node.arguments = DOMAIN node.children
        /\ \A k \in DOMAIN node.literals :
               /\ node.literals[k] = node.children[k]
               /\ NodeOf(h, node.children[k]).kind = "literal"
        /\ \A k \in DOMAIN node.arguments :
               /\ node.arguments[k] = node.children[k]
               /\ NodeOf(h, node.children[k]).kind = "argument"
        /\ \A k \in DOMAIN node.children : NodeOf(h, node.children[k]).name = k
        /\ {ordered[i].key : i \in DOMAIN ordered} = DOMAIN node.children
        /\ \A i \in DOMAIN ordered : ordered[i].value = node.children[ordered[i].key]

\* C13: after any sequence of AddChild and RemoveChild calls the names of
\* the children of a node are unique, every child is in the one of
\* literals / arguments that its kind names and these hold no other name,
\* and ChildrenOrdered holds the names of the children map, each once and
\* with the same node.
C13_TreeIndexes == \A n \in NodeIds(tree) : IndexesAgree(tree, NodeOf(tree, n))

\* the literal foo was removed from a node that keeps its argument bar
C13_Witness ==
    /\ Len(treeLog) = 2
    /\ treeLog[1].op = "Register"
    /\ LastTreeCall.op = "RemoveChild"
    /\ LastTreeCall.name = NFoo
    /\ LET node == NodeOf(tree, LastTreeCall.n)
       IN  /\ DOMAIN node.children = {NBar}
           /\ DOMAIN node.arguments = {NBar}
           /\ Len(node.childrenOrdered) = 1
           /\ NodeOf(tree, treeLog[1].id).name = NBase
           /\ Len(treeLog[1].b.then) = 2

(***************************************************************************)
(* Claims about the reader's cursor (checked under SpecReaderOps).         *)
(***************************************************************************)
\* C14: from a reader with 0 <= cursor <= len(input), after any sequence
\* of Skip, Read, Peek, CanRead, ReadString, ReadQuotedString,
\* ReadUnquotedString, ReadInt32, ReadInt64, ReadBool and Remaining the
\* cursor is still within 0 .. len(input).
C14_CursorInWindow == InWindow

(***************************************************************************)
(* Claims about redirects and forks (checked under Spec).                  *)
(***************************************************************************)
\* the contexts of a chain, from the context down its Child links
RECURSIVE ChainOf(_)
ChainOf(c) == <<c>> \o (IF c.Child = <<>> THEN <<>> ELSE ChainOf(c.Child[1]))

\* k times the literal that redirects to Root, then the executable literal
RedirectChainTokens(k) == [i \in 1..(k + 1) |-> IF i <= k THEN LRedirect ELSE LActual]

RedirectChainParsed(k) ==
    /\ FindNode(tree, <<LRedirect>>) # NoNode
    /\ input = Join(RedirectChainTokens(k))
    /\ parse # <<>>

\* C15: k >= 1 repetitions of a literal that redirects to Root followed by
\* an executable literal parse to a chain of exactly k + 1 contexts, each
\* with one parsed node, RootNode Root and the Range of its node; Execute
\* then runs the command of the executable literal once and no other, and
\* the command sees the whole input as Input.
C15_RedirectChain ==
    \A k \in 1..(MaxTokens - 1) :
        RedirectChainParsed(k) =>
            LET chain == ChainOf(parse[1].Context)
                tokens == RedirectChainTokens(k)
            IN  /\ Len(chain) = k + 1
                /\ \A i \in DOMAIN chain :
                       /\ Len(chain[i].Nodes) = 1
                       /\ chain[i].RootNode = RootId
                       /\ chain[i].Nodes[1].Node = FindNode(tree, <<tokens[i]>>)
                       /\ chain[i].Range = chain[i].Nodes[1].Range
                       /\ chain[i].Range = StringRange(2 * (i - 1), 2 * (i - 1) + 1)
                /\ pc = "done" =>
                       /\ exec.ret = <<>>
                       /\ Len(exec.log) = 1
                       /\ exec.log[1].kind = "Run"
                       /\ exec.log[1].name = NodeOf(tree, FindNode(tree, <<LActual>>)).command
                       /\ exec.log[1].ctx.Input = input
                       /\ exec.log[1].ctx.Nodes[1].Node = FindNode(tree, <<LActual>>)

\* the redirect was followed twice and the command ran
C15_Witness ==
    /\ RedirectChainParsed(2)
    /\ pc = "done"
    /\ Len(ChainOf(parse[1].Context)) = 3
    /\ Ran # {}

\* an invocation that returned an error
Failed(e) ==
    \/ e.kind = "Apply" /\ ModifierFails(e.name)
    \/ e.kind = "Run" /\ CommandFails(e.name)

\* a forking context with a child is among the first i contexts of the chain
ForkVisited(chain, i) == \E j \in 1..i : chain[j].Forks /\ chain[j].Child # <<>>

\* the place in the chain of the context of an invocation
PlaceOf(chain, e) == Len(chain) - Len(ChainOf(e.ctx)) + 1

\* C16: in Execute on a fully consumed parse, an error of Apply or Run
\* with no forking context (one that has a child) visited so far is what
\* Execute returns, with no further invocation; with a forking context
\* visited at or before it the error is not returned, nothing of the branch
\* is invoked after it, and Execute returns no command or modifier error.
C16_ForkErrors ==
    (pc \in {"executing", "done"} /\ ~ReaderCanRead(parse[1].Reader)) =>
        LET chain == ChainOf(parse[1].Context)
            log == exec.log
        IN  /\ \A k \in DOMAIN log :
                   Failed(log[k]) =>
                       IF ~ForkVisited(chain, PlaceOf(chain, log[k]))
                       THEN /\ k = Len(log)
                            /\ pc = "done"
                            /\ exec.ret = IF log[k].kind = "Apply" THEN <<ModifierError>>
                                                                   ELSE <<CommandError>>
                       ELSE /\ k = Len(log)
                            /\ exec.ret \notin {<<ModifierError>>, <<CommandError>>}
            /\ exec.ret \in {<<ModifierError>>, <<CommandError>>} =>
                   (log # <<>> /\ Failed(log[Len(log)]))

\* behind a fork whose modifier succeeds and a plain redirect, the command
\* that fails ran, and Execute returned no error
C16_Witness ==
    /\ pc = "done"
    /\ input = Join(<<LGood, LRedirect, LError>>)
    /\ Len(exec.log) = 2
    /\ exec.log[2].kind = "Run"
    /\ Failed(exec.log[2])
    /\ exec.ret = <<>>

(***************************************************************************)
(* Claims about suggestions (checked under SpecSuggest).                   *)
(***************************************************************************)
\* the start of the word the cursor c lies in or behind: behind the last
\* separator before c, or the offset the parse started at
RECURSIVE WordStart(_, _, _)
WordStart(s, c, offset) ==
    IF c > offset /\ s[c] # ArgumentSeparator THEN WordStart(s, c - 1, offset) ELSE c

\* the words of s, which single separators divide
RECURSIVE Words(_)
Words(s) ==
    IF \A i \in DOMAIN s : s[i] # ArgumentSeparator
    THEN <<s>>
    ELSE LET k == CHOOSE i \in DOMAIN s :
                      s[i] = ArgumentSeparator /\ \A j \in 1..(i - 1) : s[j] # ArgumentSeparator
         IN  <<SubSeq(s, 1, k - 1)>> \o Words(SubSeq(s, k + 1, Len(s)))

\* the words between the offset and the word at the cursor
WordsBefore(s, start, offset) ==
    IF start = offset THEN <<>> ELSE Words(Slice(s, offset, start - 1))

\* the names of the children of node P that the word w completes to
Completions(h, P, w) ==
    {name \in DOMAIN NodeOf(h, P).children : HasPrefix(ToLower(name), ToLower(w)) /\ name # w}

LiteralCompletion(h, s, offset, cursor, ret) ==
    LET start == WordStart(s, cursor, offset)
        P == FindNode(h, WordsBefore(s, start, offset))
        w == Slice(s, start, cursor)
        range == StringRange(start, cursor)
        list == ret.res.Suggestions
    IN  (cursor >= offset /\ P # NoNode /\ DOMAIN NodeOf(h, P).arguments = {}) =>
            /\ ret.err = ""
            /\ {list[i].Text : i \in DOMAIN list} = Completions(h, P, w)
            /\ Len(list) = Cardinality(Completions(h, P, w))
            /\ \A i \in DOMAIN list : list[i].Range = range
            /\ ret.res.Range = IF Completions(h, P, w) = {} THEN StringRange(0, 0) ELSE range

\* C17: for a cursor in or directly behind a partial word w under a parent
\* P that has only literal children, CompletionSuggestionsCursor returns
\* exactly the children of P whose lowercase literal starts with the
\* lowercase of w and is not w itself, each with the range from the start
\* of w to the cursor, which is the Range of the result too (the zero range
\* when nothing is suggested); a parse from an offset shifts the ranges.
C17_LiteralCompletion ==
    query.op = "CompletionSuggestionsCursor" =>
        LiteralCompletion(tree, input, rdr.Cursor, query.cursor, query.ret)

\* behind the junk, "pa b" with the cursor at its end: bar and baz of pa
C17_Witness ==
    /\ query.op = "CompletionSuggestionsCursor"
    /\ rdr.Cursor = 1
    /\ input = Junk(1) \o Join(<<LParent, <<"b">>>>)
    /\ query.cursor = 5
    /\ query.ret.res.Range = StringRange(4, 5)
    /\ Len(query.ret.res.Suggestions) = 2

(***************************************************************************)
(* Claims about CreateSuggestion and MergeSuggestions, under SpecMerge     *)
(***************************************************************************)
\* the Suggestions a query returned
QueryResult == IF query.op = "CompletionSuggestionsCursor" THEN query.ret.res ELSE query.ret

\* the place of a letter in the alphabet, whatever its case; 0 for another character
CharRank(c) ==
    IF \E i \in DOMAIN LowerChars : LowerChars[i] = ToLowerChar(c)
    THEN CHOOSE i \in DOMAIN LowerChars : LowerChars[i] = ToLowerChar(c)
    ELSE 0

\* lower(s) <= lower(t) in the order of strings
RECURSIVE LeqIgnoreCase(_, _)
LeqIgnoreCase(s, t) ==
    IF s = <<>> THEN TRUE
    ELSE IF t = <<>> THEN FALSE
    ELSE IF CharRank(Head(s)) # CharRank(Head(t)) THEN CharRank(Head(s)) < CharRank(Head(t))
    ELSE LeqIgnoreCase(Tail(s), Tail(t))

\* C18: the list of suggestions that CreateSuggestion, MergeSuggestions or
\* CompletionSuggestions returns is sorted by text in ascending order, case
\* ignored: lower(text_i) <= lower(text_i+1) for every two adjacent items.
C18_SortedIgnoreCase ==
    query.op # "none" =>
        \A i \in 1..(Len(QueryResult.Suggestions) - 1) :
            LeqIgnoreCase(QueryResult.Suggestions[i].Text, QueryResult.Suggestions[i + 1].Text)

\* the command with text in the place of its characters [r.Start, r.End)
Splice(command, r, text) ==
    Slice(command, 0, r.Start) \o text \o Slice(command, r.End, Len(command))

\* the least Start and the greatest End of a non-empty list of suggestions
SpanOf(list) ==
    StringRange(CHOOSE a \in {list[i].Range.Start : i \in DOMAIN list} :
                    \A i \in DOMAIN list : a <= list[i].Range.Start,
                CHOOSE b \in {list[i].Range.End : i \in DOMAIN list} :
                    \A i \in DOMAIN list : b >= list[i].Range.End)

\* C19: for a non-empty list of suggestions passed to CreateSuggestion or
\* MergeSuggestions with a command, the result's Range is [least start,
\* greatest end]; every returned suggestion has that Range; every returned
\* text is the text of a suggestion passed in, with the command's characters
\* from Range.Start to its start before it and those from its end to
\* Range.End after it, so that splicing it at its own Range gives what
\* splicing the original at the original's range gives; and every text
\* passed in is returned once.
C19_RangeConsistency ==
    (query.op \in {"CreateSuggestion", "MergeSuggestions"} /\ query.list # <<>>) =>
        /\ query.ret.Range = SpanOf(query.list)
        /\ \A i \in DOMAIN query.ret.Suggestions :
               /\ query.ret.Suggestions[i].Range = query.ret.Range
               /\ \E j \in DOMAIN query.list :
                      /\ query.ret.Suggestions[i].Text =
                             Slice(input, query.ret.Range.Start, query.list[j].Range.Start)
                             \o query.list[j].Text
                             \o Slice(input, query.list[j].Range.End, query.ret.Range.End)
                      /\ Splice(input, query.ret.Suggestions[i].Range,
                                query.ret.Suggestions[i].Text)
                             = Splice(input, query.list[j].Range, query.list[j].Text)
        /\ Len(query.ret.Suggestions)
               = Cardinality({query.list[j].Text : j \in DOMAIN query.list})

(***************************************************************************)
(* Claims about AllUsage, under SpecUsage                                  *)
(***************************************************************************)
\* the node sequences that start at n and follow child edges
RECURSIVE Descents(_, _)
Descents(h, n) ==
    {<<n>>}
    \cup UNION {{<<n>> \o d : d \in Descents(h, NodeOf(h, n).childrenOrdered[i].value)} :
                i \in DOMAIN NodeOf(h, n).childrenOrdered}

\* the walk reaches the end of the descent: no node before the end
\* redirects and, when restricted, no node of it is unusable
Walked(h, d, restricted) ==
    /\ \A i \in 1..(Len(d) - 1) : NodeOf(h, d[i]).redirect = NoNode
    /\ restricted => \A i \in DOMAIN d : CanUse(h, d[i])

\* the usage texts of the nodes below the start of the descent, joined by spaces
PathText(h, d) == Join([i \in 1..(Len(d) - 1) |-> UsageText(h, d[i + 1])])

RedirectText(h, n) ==
    IF NodeOf(h, n).redirect = RootId
    THEN <<".", ".", ".">>
    ELSE <<"-", ">", " ">> \o UsageText(h, NodeOf(h, n).redirect)

\* the entry of a redirect at the end of descent d; own says that the node
\* AllUsage was called on stands under its own usage text
RedirectEntry(h, d, own) ==
    (IF own /\ Len(d) = 1 THEN UsageText(h, d[1]) ELSE PathText(h, d))
    \o <<ArgumentSeparator>> \o RedirectText(h, d[Len(d)])

ExecutableEnds(h, node, restricted) ==
    {d \in Descents(h, node) : Walked(h, d, restricted) /\ NodeOf(h, d[Len(d)]).command # "nil"}

RedirectEnds(h, node, restricted) ==
    {d \in Descents(h, node) : Walked(h, d, restricted) /\ NodeOf(h, d[Len(d)]).redirect # NoNode}

\* the strings TestDispatcher_AllUsage_Root expects
TestUsages ==
    {Join(ws) : ws \in
        { <<<<"a">>, U1, UI>>, <<<<"a">>, U1, UII>>, <<<<"a">>, U2, UI>>, <<<<"a">>, U2, UII>>,
          <<<<"b">>, U1>>, <<<<"c">>>>,
          <<<<"e">>>>, <<<<"e">>, U1>>, <<<<"e">>, U1, UI>>, <<<<"e">>, U1, UII>>,
          <<<<"f">>, U1, UI>>, <<<<"f">>, U2, UII>>,
          <<<<"g">>>>, <<<<"g">>, U1, UI>>,
          <<UH>>, <<UH, U1, UI>>, <<UH, U2, UI, UII>>, <<UH, U3>>,
          <<UI>>, <<UI, U1>>, <<UI, U2>>,
          <<UJ, <<".", ".", ".">>>>, <<<<"k">>, <<"-", ">">>, UH>> }}

AllUsageIs(own) ==
    query.op = "AllUsage" =>
        /\ Elems(query.ret)
               = {PathText(tree, d) : d \in ExecutableEnds(tree, query.node, query.restricted)}
                 \cup {RedirectEntry(tree, d, own) :
                           d \in RedirectEnds(tree, query.node, query.restricted)}
        /\ Len(query.ret)
               = Cardinality(ExecutableEnds(tree, query.node, query.restricted))
                 + Cardinality(RedirectEnds(tree, query.node, query.restricted))
        /\ (/\ query.node = RootId
            /\ query.restricted
            /\ tree \in RegisterAll(EmptyHeap, setupUsage))
               => (Elems(query.ret) = TestUsages /\ Len(query.ret) = Cardinality(TestUsages))

RECURSIVE Mentions(_, _)
RECURSIVE MentionsOf(_, _)
MentionsOf(bs, prefix) ==
    IF bs = <<>> THEN <<>> ELSE Mentions(Head(bs), prefix) \o MentionsOf(Tail(bs), prefix)

Mentions(b, prefix) ==
    <<[path |-> Append(prefix, b.name), command |-> b.command]>>
    \o MentionsOf(b.then, Append(prefix, b.name))

\* the names of the children of path p, in the order they are first named
RECURSIVE NamedBelow(_, _, _)
NamedBelow(ms, p, seen) ==
    IF ms = <<>>
    THEN <<>>
    ELSE IF /\ Len(Head(ms).path) = Len(p) + 1
            /\ SubSeq(Head(ms).path, 1, Len(p)) = p
            /\ ~(Head(ms).path[Len(p) + 1] \in seen)
         THEN <<Head(ms).path[Len(p) + 1]>>
              \o NamedBelow(Tail(ms), p, seen \cup {Head(ms).path[Len(p) + 1]})
         ELSE NamedBelow(Tail(ms), p, seen)

\* the usage of the executable nodes at and below path p, the children of
\* every node in the order they are first named
RECURSIVE UsageInOrder(_, _)
RECURSIVE UsageInOrderOf(_, _, _)
UsageInOrderOf(ms, p, names) ==
    IF names = <<>>
    THEN <<>>
    ELSE UsageInOrder(ms, Append(p, Head(names))) \o UsageInOrderOf(ms, p, Tail(names))

UsageInOrder(ms, p) ==
    (IF \E i \in DOMAIN ms : ms[i].path = p /\ ms[i].command # "nil"
     THEN <<Join(p)>>
     ELSE <<>>)
    \o UsageInOrderOf(ms, p, NamedBelow(ms, p, {}))

Registered == MentionsOf([i \in DOMAIN treeLog |-> treeLog[i].b], <<>>)

\* C21: for every tree built by a sequence of Register calls, those that
\* merge several new children onto a registered literal included, AllUsage
\* emits its entries in the order in which the children of each node were
\* added (the order of the Then calls and of the registrations), and a
\* second call on the same tree returns the same sequence.
C21_UsageOrder ==
    (query.op = "AllUsage" /\ query.node = RootId) =>
        /\ query.ret = UsageInOrder(Registered, <<>>)
        /\ AllUsage(tree, query.node, query.restricted) = query.ret

(***************************************************************************)
(* Claims about the execution tests, under SpecCommands                    *)
(***************************************************************************)
\* Execute has returned for the tokens, read from the reader's offset on,
\* on the tree of foo with a command and an Int argument bar with a command
Subcommand(ts) ==
    /\ pc = "done"
    /\ tree \in RegisterAll(EmptyHeap, SubcommandBuilders)
    /\ input = Junk(rdr.Cursor) \o Join(ts)

\* exactly the command ran, once
RanOnly(command) ==
    /\ exec.ret = <<>>
    /\ Len(exec.log) = 1
    /\ exec.log[1].kind = "Run"
    /\ exec.log[1].name = command

\* Execute returned the error at the cursor and ran nothing
ReturnedOnly(err, cursor) ==
    /\ Len(exec.ret) = 1
    /\ exec.ret[1].Err = err
    /\ exec.ret[1].Cursor = cursor
    /\ exec.log = <<>>

SubcommandOutcomes(notAnInt) ==
    /\ Subcommand(<<NFoo>>) => RanOnly("c1")
    /\ Subcommand(<<NFoo, <<"5">>>>) =>
           /\ RanOnly("c2")
           /\ exec.log[1].ctx.Arguments[NBar].Result.I = 5
    /\ Subcommand(<<NFoo, NBar>>) => ReturnedOnly(notAnInt, rdr.Cursor + 4)
    /\ Subcommand(<<NFoo \o <<"$">>>>) => ReturnedOnly("UnknownCommand", rdr.Cursor)

\* C22: with foo executable and an executable Int argument bar below it,
\* Execute("foo") runs the literal's command, Execute("foo 5") runs the
\* argument's command with bar = 5, Execute("foo bar") returns InvalidInt
\* at cursor 4 and runs nothing, Execute("foo$") returns UnknownCommand at
\* cursor 0.
C22_Subcommand == SubcommandOutcomes("InvalidInt")

\* C22 as the code has it: "foo bar" returns ExpectedInt at cursor 4.
C22_SubcommandExpectedInt == SubcommandOutcomes("ExpectedInt")

C22_Witness ==
    /\ Subcommand(<<NFoo, NBar>>)
    /\ rdr.Cursor = 0
    /\ ReturnedOnly("ExpectedInt", 4)

ParsedContexts(p) == SelectSeq(ChainOf(p.Context), HasNodes)

\* the node parsed last in the chain of p
LastParsedNode(p) ==
    ParsedContexts(p)[Len(ParsedContexts(p))].Nodes[
        Len(ParsedContexts(p)[Len(ParsedContexts(p))].Nodes)].Node

NoCommandRan == \A i \in DOMAIN exec.log : exec.log[i].kind # "Run"

\* C24: only the command of the last parsed node is executable: every
\* context with parsed nodes carries the command of the node it parsed last
\* (possibly none), and when the input is fully consumed and the node
\* parsed last has no command, Execute returns UnknownCommand with cursor
\* len(input) and runs nothing, whatever commands the nodes before it have.
C24_LastNodeCommand ==
    pc = "done" =>
        /\ \A i \in DOMAIN ParsedContexts(parse[1]) :
               ParsedContexts(parse[1])[i].Command
                   = NodeOf(tree, ParsedContexts(parse[1])[i].Nodes[
                                      Len(ParsedContexts(parse[1])[i].Nodes)].Node).command
        /\ (/\ ~ReaderCanRead(parse[1].Reader)
            /\ ParsedContexts(parse[1]) # <<>>
            /\ NodeOf(tree, LastParsedNode(parse[1])).command = "nil")
               => (/\ Len(exec.ret) = 1
                   /\ exec.ret[1].Err = "UnknownCommand"
                   /\ exec.ret[1].Cursor = Len(input)
                   /\ NoCommandRan)

(***************************************************************************)
(* Claims about the steps of the parse, under Spec                         *)
(***************************************************************************)
\* parseNodes calls itself: the frame of the caller and the new frame
Calling == pc = "parsing" /\ Len(stack') = Len(stack) + 1

Caller == stack'[Len(stack)]

Callee == stack'[Len(stack')]

\* the child the loop is at, and the cursor behind its parse when a call follows
TriedChild == Top.rel[Top.i]

AfterChild == Callee.cursor - 1

\* the child matched as a leaf: the loop goes on with one more potential
LeafMatch ==
    /\ pc = "parsing"
    /\ Len(stack') = Len(stack)
    /\ Len(stack'[Len(stack)].potentials) = Len(Top.potentials) + 1

\* a parseNodes call returns: the record of the call
Returning == pc = "parsing" /\ Len(levels') = Len(levels) + 1

Level == levels'[Len(levels')]

\* C25: when a child with a redirect parses and at least one more byte is
\* readable, the engine skips one byte and parses the rest against the
\* redirect target in a fresh child context (RootNode the target, no nodes,
\* no arguments, Range [cursor, cursor]), attaches the result as ctx.Child
\* and returns at once: no sibling is tried after it and the potentials of
\* earlier siblings are not returned.  A child without redirect recurses
\* only when at least two more bytes are readable; otherwise it is a leaf
\* match, which leaves at most a single trailing separator unread.
C25_RedirectShortCircuit ==
    [][/\ Calling =>
              /\ Caller.ctx.Nodes[Len(Caller.ctx.Nodes)].Node = TriedChild
              /\ Caller.ctx.Nodes[Len(Caller.ctx.Nodes)].Range.End = AfterChild
              /\ IF NodeOf(tree, TriedChild).redirect # NoNode
                 THEN /\ CanReadLen(input, AfterChild, 1)
                      /\ Callee.node = NodeOf(tree, TriedChild).redirect
                      /\ Callee.ctxSoFar.RootNode = NodeOf(tree, TriedChild).redirect
                      /\ Callee.ctxSoFar.Nodes = <<>>
                      /\ Callee.ctxSoFar.Arguments = EmptyMap
                      /\ Callee.ctxSoFar.Child = <<>>
                      /\ Callee.ctxSoFar.Range = StringRange(Callee.cursor, Callee.cursor)
                 ELSE /\ CanReadLen(input, AfterChild, 2)
                      /\ Callee.node = TriedChild
                      /\ Callee.ctxSoFar = Caller.ctx
       /\ LeafMatch =>
              LET leaf == stack'[Len(stack)].potentials[Len(Top.potentials) + 1]
              IN  /\ leaf.Context.Nodes[Len(leaf.Context.Nodes)].Node = TriedChild
                  /\ leaf.Context.Child = <<>>
                  /\ IF NodeOf(tree, TriedChild).redirect # NoNode
                     THEN ~CanReadLen(input, leaf.Reader.Cursor, 1)
                     ELSE /\ ~CanReadLen(input, leaf.Reader.Cursor, 2)
                          /\ CanReadLen(input, leaf.Reader.Cursor, 1)
                                 => input[leaf.Reader.Cursor + 1] = ArgumentSeparator
       /\ Returning =>
              /\ (\E i \in DOMAIN Level.tried :
                      /\ NodeOf(tree, Level.tried[i]).redirect # NoNode
                      /\ Level.tried[i] \notin DOMAIN Top.errs
                      /\ CanReadLen(input, Level.result.Context.Range.End, 1)
                      /\ i = Len(Level.tried))
                     => Level.redirected
              /\ Level.redirected =>
                     LET via == Level.tried[Len(Level.tried)]
                         ctx == Level.result.Context
                     IN  /\ NodeOf(tree, via).redirect # NoNode
                         /\ ctx.Nodes[Len(ctx.Nodes)].Node = via
                         /\ ctx.Child # <<>>
                         /\ ctx.Child[1].RootNode = NodeOf(tree, via).redirect
                         /\ ctx.Child[1].Range.Start = ctx.Range.End + 1
                         /\ \A j \in DOMAIN Level.potentials :
                                Level.potentials[j] # Level.result
                         /\ \A j \in DOMAIN Level.rel :
                                (Level.rel[j] \in Elems(Level.tried))
                                    => j <= (CHOOSE k \in DOMAIN Level.rel : Level.rel[k] = via)]_vars

\* a call returns the result of a redirect although an earlier sibling had
\* left a potential, and a sibling behind the redirecting child is not tried
C25_Witness ==
    \E i \in DOMAIN levels :
        /\ levels[i].redirected
        /\ Len(levels[i].potentials) >= 1
        /\ Len(levels[i].tried) < Len(levels[i].rel)


(***************************************************************************)
(* Claims about the errors of a parse, under SpecCommands                  *)
(***************************************************************************)
\* the errors a caller of Parse and Execute is handed: those of
\* ParseResults.Errs and the one Execute returns
ReportedErrors ==
    (IF parse # <<>> THEN Elems(parse[1].Errs) ELSE {}) \cup Elems(exec.ret)

\* the cursor an error reports is the cursor of its point of failure
AtPointOfFailure(e) ==
    /\ e.Cursor = e.At
    /\ e.Err = "ExpectedArgumentSeparator" =>
           /\ e.Cursor < Len(input)
           /\ input[e.Cursor + 1] # ArgumentSeparator
    /\ e.Err = "ExpectedEndOfQuote" => e.Cursor = Len(input)
    /\ e.Err = "InvalidEscape" =>
           /\ e.Cursor >= 1
           /\ e.Cursor < Len(input)
           /\ input[e.Cursor] = SyntaxEscape

\* C26: every error recorded in ParseResults.Errs, and so every syntax error
\* Execute returns, reports the reader cursor of its point of failure: the
\* unexpected byte behind the token for ExpectedArgumentSeparator, the end
\* of the input for ExpectedEndOfQuote, the offending character for
\* InvalidEscape; the cursor an error reports is the one it was made with.
C26_ErrorCursor == \A e \in ReportedErrors : AtPointOfFailure(e)

\* the same of the errors that are not recorded by parseNodes: Execute's own
C26_ExecuteErrorCursor ==
    \A e \in Elems(exec.ret) :
        e.Err \in {"UnknownCommand", "UnknownArgument"} => AtPointOfFailure(e)


(***************************************************************************)
(* Claims about the suggestions of the Bool type, under SpecBool           *)
(***************************************************************************)
\* the words among "true" and "false" that start with the lower-case
\* remaining text and are not the remaining text
BoolWords(b) ==
    {w \in {LTrue, LFalse} : HasPrefix(w, b.RemainingLowerCase) /\ w # b.Remaining}

SuggestedTexts(suggestions) == {suggestions.Suggestions[i].Text : i \in DOMAIN suggestions.Suggestions}

\* C27: for every remaining text the Bool type suggests exactly those of
\* "true" and "false" that start with the lower-case remaining text and
\* differ from it, each once; for the empty remaining text it suggests both.
C27_BoolByPrefix ==
    query.op = "BoolSuggestions" =>
        /\ SuggestedTexts(query.ret) = BoolWords(query.builder)
        /\ Len(query.ret.Suggestions) = Cardinality(BoolWords(query.builder))

\* what the Bool type does suggest: the first of "true" and "false" that
\* starts with the lower-case remaining text, unless it is the remaining text
C27_BoolFirstByPrefix ==
    query.op = "BoolSuggestions" =>
        LET b == query.builder
            first == IF HasPrefix(LTrue, b.RemainingLowerCase) THEN {LTrue}
                     ELSE IF HasPrefix(LFalse, b.RemainingLowerCase) THEN {LFalse} ELSE {}
        IN  /\ SuggestedTexts(query.ret) = first \ {b.Remaining}
            /\ Len(query.ret.Suggestions) = Cardinality(first \ {b.Remaining})


(***************************************************************************)
(* Claims about the ranges of a parse, under SpecCommands                  *)
(***************************************************************************)
\* the ranges of the nodes of context c lie in the input behind the cursor
\* the reader started at, and each begins one behind the end of the one before
NodeRanges(c) ==
    /\ \A i \in DOMAIN c.Nodes :
           /\ rdr.Cursor <= c.Nodes[i].Range.Start
           /\ c.Nodes[i].Range.Start <= c.Nodes[i].Range.End
           /\ c.Nodes[i].Range.End <= Len(input)
    /\ \A i \in 1..(Len(c.Nodes) - 1) :
           c.Nodes[i + 1].Range.Start = c.Nodes[i].Range.End + 1

\* the Range of context c spans its nodes, or is empty when it has none
ContextRange(c) ==
    IF HasNodes(c)
    THEN c.Range = StringRange(c.Nodes[1].Range.Start, c.Nodes[Len(c.Nodes)].Range.End)
    ELSE c.Range.Start = c.Range.End

\* the arguments of context c are those of its argument nodes, with the
\* range of the node (of the last node of that name)
ArgumentRanges(c) ==
    /\ \A name \in DOMAIN c.Arguments :
           \E i \in DOMAIN c.Nodes :
               /\ NodeOf(tree, c.Nodes[i].Node).kind = "argument"
               /\ NodeOf(tree, c.Nodes[i].Node).name = name
               /\ c.Nodes[i].Range = c.Arguments[name].Range
    /\ \A i \in DOMAIN c.Nodes :
           NodeOf(tree, c.Nodes[i].Node).kind = "argument" =>
               /\ NodeOf(tree, c.Nodes[i].Node).name \in DOMAIN c.Arguments
               /\ (\A j \in DOMAIN c.Nodes :
                       (j > i) => NodeOf(tree, c.Nodes[j].Node).name
                                      # NodeOf(tree, c.Nodes[i].Node).name)
                      => c.Arguments[NodeOf(tree, c.Nodes[i].Node).name].Range
                             = c.Nodes[i].Range

\* C28: in every context of the chain that Parse or ParseReader returns,
\* every node range satisfies initial cursor <= start <= end <= len(input),
\* consecutive nodes satisfy next.start = previous.end + 1, the context's
\* Range is [start of its first node, end of its last node] or the empty
\* range at its starting cursor when it has no nodes, a child context's
\* Range.Start is its parent's Range.End + 1, and the range of every parsed
\* argument is the range of the node recorded for it.
C28_Ranges ==
    parse # <<>> =>
        LET chain == ChainOf(parse[1].Context)
        IN  /\ \A k \in DOMAIN chain :
                   /\ NodeRanges(chain[k])
                   /\ ContextRange(chain[k])
                   /\ ArgumentRanges(chain[k])
                   /\ k > 1 => chain[k].Range.Start = chain[k - 1].Range.End + 1
            /\ chain[1].Range.Start = rdr.Cursor

\* a parse from a reader offset into a chain of two contexts, one of them
\* with two nodes and an argument
C28_Witness ==
    /\ parse # <<>>
    /\ rdr.Cursor = 1
    /\ Len(ChainOf(parse[1].Context)) >= 2
    /\ \E k \in DOMAIN ChainOf(parse[1].Context) :
           /\ Len(ChainOf(parse[1].Context)[k].Nodes) >= 2
           /\ DOMAIN ChainOf(parse[1].Context)[k].Arguments # {}


(***************************************************************************)
(* Claims about the generations of Execute, under Spec                     *)
(***************************************************************************)
\* the invocations of one kind in the log of Execute
InvokedKind(kind) == SelectSeq(exec.log, LAMBDA e : e.kind = kind)

\* context c is link k of the chain Execute built, but for its Context
LinkOf(c, k) ==
    /\ k \in DOMAIN ChainOf(parse[1].Context)
    /\ [c EXCEPT !.Context = "host"]
           = [build(ChainOf(parse[1].Context)[k], input) EXCEPT !.Context = "host"]

\* the generation Execute is at: the link of the context of its frontier
Generation(e) == Len(ChainOf(parse[1].Context)) - Len(ChainOf(e.contexts[1])) + 1

\* C29: during Execute the frontier never holds more than one context, each
\* generation advances exactly one link of the context chain, the walk ends
\* after at most as many generations as the chain has links, and so one
\* call of Execute invokes Command.Run at most once and RedirectModifier.Apply
\* at most once per link.
C29_OneContextPerGeneration ==
    [][(pc = "executing" \/ pc' = "executing") =>
           /\ Len(exec'.contexts) <= 1
           /\ Len(exec'.next) <= 1
           /\ Len(exec'.contexts) = 1 =>
                  /\ LinkOf(exec'.contexts[1], Generation(exec'))
                  /\ Len(exec'.next) = 1 =>
                         LinkOf(exec'.next[1], Generation(exec') + 1)
           /\ (pc = "parsed" /\ pc' = "executing") => Generation(exec') = 1
           /\ (Len(exec.contexts) = 1 /\ Len(exec'.contexts) = 1
                   /\ exec'.contexts # exec.contexts) =>
                  Generation(exec') = Generation(exec) + 1
           /\ Len(SelectSeq(exec'.log, LAMBDA e : e.kind = "Run")) <= 1
           /\ \A i, j \in DOMAIN exec'.log :
                  (i < j /\ exec'.log[i].kind = "Apply" /\ exec'.log[j].kind = "Apply") =>
                      exec'.log[i].ctx.Range.End < exec'.log[j].ctx.Range.Start
           /\ \A i \in DOMAIN exec'.log :
                  exec'.log[i].kind = "Apply" =>
                      \E k \in 1..(Len(ChainOf(parse[1].Context)) - 1) :
                          exec'.log[i].ctx.Nodes = ChainOf(parse[1].Context)[k].Nodes]_vars

\* Execute walked a chain of three links: a modifier was applied on the
\* first two and the command of the third was run
C29_Witness ==
    /\ pc = "done"
    /\ Len(ChainOf(parse[1].Context)) >= 3
    /\ Len(InvokedKind("Apply")) >= 2
    /\ Len(InvokedKind("Run")) = 1


(***************************************************************************)
(* Claims about literal children in Parse, under Spec                      *)
(***************************************************************************)
IsLiteral(n) == NodeOf(tree, n).kind = "literal"

\* no error of the map is an IncorrectLiteral, none is keyed by a literal
NoLiteralError(errs) ==
    \A n \in DOMAIN errs : ~IsLiteral(n) /\ errs[n].Err # "IncorrectLiteral"

OnlyLiteralChildren(n) ==
    /\ DOMAIN NodeOf(tree, n).literals # {}
    /\ DOMAIN NodeOf(tree, n).arguments = {}

\* the node a finished parse stopped below: the node parsed last in the
\* last context of the chain, or that context's root
StoppedBelow(p) ==
    LET chain == ChainOf(p.Context)
        c == chain[Len(chain)]
    IN  IF HasNodes(c) THEN c.Nodes[Len(c.Nodes)].Node ELSE c.RootNode

\* C30: a literal child is only attempted when the next token, delimited by
\* a space or the end of the input, equals its literal; its Parse then
\* succeeds and consumes exactly that token.  So no Errs map holds an
\* IncorrectLiteral or an entry keyed by a literal node, a call on a node
\* with only literal children of which none matches returns an empty Errs,
\* and Execute then reports UnknownCommand or UnknownArgument.
C30_LiteralsByToken ==
    /\ \A i \in DOMAIN stack :
           /\ NoLiteralError(stack[i].errs)
           /\ \A j \in DOMAIN stack[i].rel :
                  IsLiteral(stack[i].rel[j]) =>
                      NextToken(input, stack[i].cursor) = NodeOf(tree, stack[i].rel[j]).name
    /\ \A i \in DOMAIN levels :
           LET L == levels[i]
           IN  /\ NoLiteralError(L.result.Errs)
               /\ \A j \in DOMAIN L.tried :
                      IsLiteral(L.tried[j]) =>
                          /\ NextToken(input, L.cursor) = NodeOf(tree, L.tried[j]).name
                          /\ \E k \in DOMAIN L.result.Context.Nodes :
                                 /\ L.result.Context.Nodes[k].Node = L.tried[j]
                                 /\ L.result.Context.Nodes[k].Range
                                        = StringRange(L.cursor, TokenEnd(input, L.cursor))
               /\ (OnlyLiteralChildren(L.node) /\ L.rel = <<>>) =>
                      /\ L.result.Errs = EmptyMap
                      /\ L.result.Reader.Cursor = L.cursor
    /\ parse # <<>> =>
           /\ NoLiteralError(parse[1].Errs)
           /\ (ReaderCanRead(parse[1].Reader) /\ OnlyLiteralChildren(StoppedBelow(parse[1]))) =>
                  /\ parse[1].Errs = EmptyMap
                  /\ pc = "done" =>
                         /\ exec.ret # <<>>
                         /\ exec.ret[1].Err \in {"UnknownCommand", "UnknownArgument"}
                         /\ exec.log = <<>>
    /\ \A i \in DOMAIN exec.ret : exec.ret[i].Err # "IncorrectLiteral"

\* a literal was parsed and the node below it has only literal children, of
\* which none is the next token: Execute returned UnknownArgument
C30_Witness ==
    /\ pc = "done"
    /\ HasNodes(parse[1].Context)
    /\ ReaderCanRead(parse[1].Reader)
    /\ OnlyLiteralChildren(StoppedBelow(parse[1]))
    /\ NextToken(input, parse[1].Reader.Cursor) # <<>>
    /\ exec.ret = <<Error("UnknownArgument", parse[1].Reader.Cursor, parse[1].Reader.Cursor)>>

====
